---- MODULE Spec2Model ----
(***************************************************************************)
(* SourceRecord: capture integrity chain and proof-pack export and          *)
(* verification.                                                            *)
(*                                                                          *)
(* The store (tables source, capture, capture_artifact, event_log) is      *)
(* shared by concurrent HTTP requests, each running in a database session  *)
(* of its own (app/db.py get_db).  A request sees committed rows only; its *)
(* own pending rows become visible to the others at commit.                *)
(*                                                                          *)
(* Text is modelled by TLA+ strings.  SHA-256 is modelled by an injective  *)
(* function of its input (collision-freedom), written sha256<...>.         *)
(***************************************************************************)
EXTENDS Integers, Sequences, FiniteSets, TLC

VARIABLES
    sources,     \* committed rows of table source
    captures,    \* committed rows of table capture
    artifacts,   \* committed rows of table capture_artifact
    event_log,   \* committed rows of table event_log
    now,         \* the wall clock: the next reading of datetime.now
    creq,        \* create_capture requests: position and locals of each
    sreq,        \* create_source requests: position and locals of each
    zip,         \* the last result of build_proof_pack (archive, filename)
    dir,         \* the directory a proof pack was unpacked into
    builds,      \* number of build_proof_pack runs so far
    edits,       \* number of edits made to the unpacked directory
    timeline     \* the last answer of get_timeline

vars == <<sources, captures, artifacts, event_log, now, creq, sreq, zip, dir, builds, edits, timeline>>

store == <<sources, captures, artifacts, event_log>>

(***************************************************************************)
(* Bounds of the model.                                                     *)
(***************************************************************************)
NumCaptureRequests == 2
NumSourceRequests == 1
MaxBuilds == 2
MaxEdits == 2
MaxChain == 2

CaptureRequests == 1..NumCaptureRequests
SourceRequests == 1..NumSourceRequests

\* Python's None, where a value is optional.
None == "None"

V1_ORG_ID == "00000000-0000-0000-0000-000000000001"

(***************************************************************************)
(* Strings.                                                                 *)
(***************************************************************************)
RECURSIVE Find(_, _, _)
\* s.find(c, from): the first index >= from (1-based) of a character of set
\* cs in s, 0 when there is none.
Find(s, cs, from) ==
    IF from > Len(s) THEN 0
    ELSE IF SubSeq(s, from, from) \in cs THEN from
    ELSE Find(s, cs, from + 1)

LowerChar(c) ==
    CASE c = "A" -> "a" [] c = "B" -> "b" [] c = "H" -> "h" [] c = "I" -> "i"
      [] c = "O" -> "o" [] c = "P" -> "p" [] c = "T" -> "t" [] c = "X" -> "x"
      [] OTHER -> c

RECURSIVE Lower(_)
\* str.lower on the alphabet the model's URLs use.
Lower(s) == IF s = "" THEN "" ELSE LowerChar(SubSeq(s, 1, 1)) \o Lower(Tail(s))

\* s[i:] for a 1-based i.
From(s, i) == SubSeq(s, i, Len(s))

\* s[:n]: the first n characters, all of s when it is shorter.
Prefix(s, n) == SubSeq(s, 1, IF n > Len(s) THEN Len(s) ELSE n)

(***************************************************************************)
(* app/services/normalize.py                                                *)
(***************************************************************************)
\* The part of s before the first character of set cs (all of s when there is
\* none), and the part after it ("" when there is none): s.split(c, 1).
Before(s, cs) == LET i == Find(s, cs, 1) IN IF i = 0 THEN s ELSE SubSeq(s, 1, i - 1)
After(s, cs) == LET i == Find(s, cs, 1) IN IF i = 0 THEN "" ELSE From(s, i + 1)

\* urlsplit, the scheme: the index of the colon that ends it, 0 when the URL
\* has no scheme.
SchemeEnd(url) ==
    LET colon == Find(url, {":"}, 1)
    IN  IF colon > 1 /\ Find(SubSeq(url, 1, colon - 1), {"/", "?", "#"}, 1) = 0
        THEN colon ELSE 0

\* urlsplit, the netloc of what follows the scheme: the index just past it, 0
\* when there is no "//".
NetlocEnd(rest) ==
    IF Prefix(rest, 2) # "//" THEN 0
    ELSE LET delim == Find(rest, {"/", "?", "#"}, 3)
         IN  IF delim = 0 THEN Len(rest) + 1 ELSE delim

\* urlsplit, the rest: the fragment is cut off first, then the query.
SplitTail(scheme, netloc, rest) ==
    [scheme |-> scheme, netloc |-> netloc,
     path |-> Before(Before(rest, {"#"}), {"?"}),
     query |-> After(Before(rest, {"#"}), {"?"}),
     fragment |-> After(rest, {"#"})]

SplitNetloc(scheme, rest, e) ==
    SplitTail(scheme,
              IF e = 0 THEN "" ELSE SubSeq(rest, 3, e - 1),
              IF e = 0 THEN rest ELSE From(rest, e))

SplitScheme(url, colon) ==
    IF colon = 0 THEN SplitNetloc("", url, NetlocEnd(url))
    ELSE SplitNetloc(Lower(SubSeq(url, 1, colon - 1)), From(url, colon + 1),
                     NetlocEnd(From(url, colon + 1)))

\* urllib.parse.urlsplit: scheme (lower-cased), netloc, path, query, fragment.
urlsplit(url) == SplitScheme(url, SchemeEnd(url))

\* urllib.parse.urlunsplit, for the http and https schemes (both use a netloc).
urlunsplit(scheme, netloc, path, query, fragment) ==
    (IF scheme # "" THEN scheme \o ":" ELSE "")
    \o (IF netloc # "" \/ (scheme # "" /\ Prefix(path, 2) # "//")
        THEN "//" \o netloc
             \o (IF path # "" /\ Prefix(path, 1) # "/" THEN "/" ELSE "")
        ELSE "")
    \o path
    \o (IF query # "" THEN "?" \o query ELSE "")
    \o (IF fragment # "" THEN "#" \o fragment ELSE "")

\* Lines 9-14 of canonicalize_url: the path, "/" when empty, without one
\* trailing slash otherwise.
CanonicalPath(path) ==
    IF path = "" THEN "/"
    ELSE IF path # "/" /\ SubSeq(path, Len(path), Len(path)) = "/"
    THEN SubSeq(path, 1, Len(path) - 1)
    ELSE path

CanonicalParts(parts) ==
    urlunsplit(Lower(parts.scheme), Lower(parts.netloc), CanonicalPath(parts.path),
               parts.query, "")

canonicalize_url(url) == CanonicalParts(urlsplit(url))

(***************************************************************************)
(* Hashing: app/routers/captures.py, app/services/fetcher.py                *)
(***************************************************************************)
\* hashlib.sha256(b).hexdigest(): collision-free, so an injective function.
sha256_hex(b) == "sha256<" \o b \o ">"

\* "|".join(fields)
RECURSIVE Join(_)
Join(fields) ==
    IF Len(fields) = 0 THEN ""
    ELSE IF Len(fields) = 1 THEN fields[1]
    ELSE fields[1] \o "|" \o Join(Tail(fields))

\* x or "" for an optional string x.
OrEmpty(x) == IF x = None \/ x = "" THEN "" ELSE x

\* A slip in the field order: the two content digests exchanged.
compute_chain_sha256_swapped(prev_capture_id, prev_chain, raw_sha, norm_sha, captured_at_iso, canonical_url) ==
    sha256_hex(Join(<<OrEmpty(prev_capture_id), OrEmpty(prev_chain), norm_sha,
                      raw_sha, captured_at_iso, canonical_url>>))

\* The digest without the digest of the capture before.
compute_chain_sha256_unlinked(prev_capture_id, prev_chain, raw_sha, norm_sha, captured_at_iso, canonical_url) ==
    sha256_hex(Join(<<OrEmpty(prev_capture_id), "", raw_sha,
                      norm_sha, captured_at_iso, canonical_url>>))

compute_chain_sha256(prev_capture_id, prev_chain, raw_sha, norm_sha, captured_at_iso, canonical_url) ==
    sha256_hex(Join(<<OrEmpty(prev_capture_id), OrEmpty(prev_chain), raw_sha,
                      norm_sha, captured_at_iso, canonical_url>>))

\* datetime.isoformat() of a UTC reading of the clock, t ticks after the epoch
\* of the model.
isoformat(t) == "2026-01-01T00:00:0" \o ToString(t) \o "+00:00"

\* str(uuid.uuid4()): a fresh identifier, one per row a request creates.
Uuid(kind, r) == kind \o ToString(r)

(***************************************************************************)
(* app/services/fetcher.py                                                  *)
(***************************************************************************)
\* normalize_html_to_text on the bodies the model fetches: tags dropped,
\* whitespace collapsed, trimmed.
normalize_html_to_text(html) ==
    CASE html = "<p>a  b</p>" -> "a b"
      [] OTHER -> ""

\* What the network may answer: a response (any status) or an exception.
Responses ==
    {[raises |-> FALSE, status |-> 200, content |-> "<p>a  b</p>"],
     [raises |-> FALSE, status |-> 500, content |-> ""],
     [raises |-> TRUE, status |-> 0, content |-> ""]}

\* fetch_url's result for a response that did not raise.
fetch_url(resp) ==
    LET raw == resp.content
        norm_text == normalize_html_to_text(raw)
    IN  [status |-> resp.status,
         raw_bytes_sha256 |-> sha256_hex(raw),
         normalized_text_sha256 |-> sha256_hex(norm_text),
         normalized_text_len |-> Len(norm_text)]

(***************************************************************************)
(* The store: app/models.py                                                 *)
(***************************************************************************)
\* Rows of table source that the API did not write: the column is_active
\* defaults to true and no handler ever sets it, so an inactive source is a
\* row changed by the operator of the database.
InactiveSource ==
    [id |-> "s0", org_id |-> V1_ORG_ID, url |-> "http://old.io/",
     canonical_url |-> "http://old.io/", is_active |-> FALSE]

NoRow == [id |-> None]

\* select(Source).where(Source.id == source_id, Source.org_id == V1_ORG_ID)
\*   .scalar_one_or_none()
SelectSource(source_id) ==
    LET rows == {s \in sources : s.id = source_id /\ s.org_id = V1_ORG_ID}
    IN  IF rows = {} THEN NoRow ELSE CHOOSE s \in rows : TRUE

\* The captures of a source for the tenant.
CapturesOf(source_id) ==
    {c \in captures : c.source_id = source_id /\ c.org_id = V1_ORG_ID}

\* A query that sees the rows other requests have flushed and not committed.
LatestCaptures_uncommitted(source_id) ==
    {c \in CapturesOf(source_id)
           \cup {creq[q].cap : q \in {p \in DOMAIN creq :
                                         /\ creq[p].pc = "commit"
                                         /\ creq[p].cap.source_id = source_id}} :
        \A d \in CapturesOf(source_id)
                 \cup {creq[q].cap : q \in {p \in DOMAIN creq :
                                               /\ creq[p].pc = "commit"
                                               /\ creq[p].cap.source_id = source_id}} :
            d.captured_at <= c.captured_at}

\* The latest capture of the tenant, whatever its source.
LatestCaptures_any_source(source_id) ==
    {c \in captures : \A d \in captures : d.captured_at <= c.captured_at}

\* select(Capture).where(...).order_by(Capture.captured_at.desc()).limit(1):
\* the rows the query may return (rows with equal captured_at come in any
\* order).
LatestCaptures(source_id) ==
    {c \in CapturesOf(source_id) :
        \A d \in CapturesOf(source_id) : d.captured_at <= c.captured_at}

\* Requests are numbered in the order they arrive.
InArrivalOrder(req, r) == IF r = 1 THEN TRUE ELSE req[r - 1].pc # "new"

(***************************************************************************)
(* create_source: app/routers/sources.py                                    *)
(***************************************************************************)
\* The URLs a create_source request may carry.
Urls == {"http://a.io/x", "HTTP://A.io/x/"}

NewSourceRequest == [pc |-> "new", url |-> "", canonical |-> "", status |-> 0, id |-> None]

\* A check that records the request it turns away in the audit log.
SourceCheckExisting_logged(r, url) ==
    /\ sreq[r].pc = "new"
    /\ InArrivalOrder(sreq, r)
    /\ IF \E s \in sources : s.org_id = V1_ORG_ID /\ s.canonical_url = canonicalize_url(url)
       THEN /\ sreq' = [sreq EXCEPT ![r] = [@ EXCEPT !.pc = "done", !.status = 409]]
            /\ event_log' = event_log \cup
                  {[id |-> Uuid("e-r", r), org_id |-> V1_ORG_ID,
                    event_type |-> "source.rejected", entity_type |-> "source",
                    entity_id |-> None, fetch_status |-> 0]}
       ELSE /\ sreq' = [sreq EXCEPT ![r] =
                          [@ EXCEPT !.pc = "insert", !.url = url,
                                    !.canonical = canonicalize_url(url)]]
            /\ UNCHANGED event_log
    /\ UNCHANGED <<sources, captures, artifacts, now, creq, zip, dir, builds, edits, timeline>>

\* Lines 18-24: canonicalize, look for the canonical URL, 409 when it exists.
SourceCheckExisting(r, url) ==
    /\ sreq[r].pc = "new"
    /\ InArrivalOrder(sreq, r)
    /\ LET canonical == canonicalize_url(url)
           existing == {s \in sources :
                          s.org_id = V1_ORG_ID /\ s.canonical_url = canonical}
       IN  sreq' = [sreq EXCEPT ![r] =
                      IF existing # {}
                      THEN [@ EXCEPT !.pc = "done", !.status = 409]
                      ELSE [@ EXCEPT !.pc = "insert", !.url = url,
                                     !.canonical = canonical]]
    /\ UNCHANGED <<store, now, creq, zip, dir, builds, edits, timeline>>

\* The insert on a table without the constraint uq_source_org_canonical.
SourceInsertCommit_unconstrained(r) ==
    /\ sreq[r].pc = "insert"
    /\ sources' = sources \cup
          {[id |-> Uuid("s", r), org_id |-> V1_ORG_ID, url |-> sreq[r].url,
            canonical_url |-> sreq[r].canonical, is_active |-> TRUE]}
    /\ event_log' = event_log \cup
          {[id |-> Uuid("e-s", r), org_id |-> V1_ORG_ID,
            event_type |-> "source.created", entity_type |-> "source",
            entity_id |-> Uuid("s", r), fetch_status |-> 0]}
    /\ sreq' = [sreq EXCEPT ![r] =
                  [@ EXCEPT !.pc = "done", !.status = 200, !.id = Uuid("s", r)]]
    /\ UNCHANGED <<captures, artifacts, now, creq, zip, dir, builds, edits, timeline>>

\* Lines 26-48: insert the source and its event, commit.  The unique
\* constraint uq_source_org_canonical rejects the insert when a concurrent
\* request committed the same canonical URL since the check; nothing catches
\* the IntegrityError, so the request ends with status 500.
SourceInsertCommit(r) ==
    /\ sreq[r].pc = "insert"
    /\ LET s == [id |-> Uuid("s", r), org_id |-> V1_ORG_ID, url |-> sreq[r].url,
                 canonical_url |-> sreq[r].canonical, is_active |-> TRUE]
           duplicate == \E t \in sources :
                           t.org_id = s.org_id /\ t.canonical_url = s.canonical_url
       IN  IF duplicate
           THEN /\ sreq' = [sreq EXCEPT ![r] = [@ EXCEPT !.pc = "done", !.status = 500]]
                /\ UNCHANGED store
           ELSE /\ sources' = sources \cup {s}
                /\ event_log' = event_log \cup
                      {[id |-> Uuid("e-s", r), org_id |-> V1_ORG_ID,
                        event_type |-> "source.created", entity_type |-> "source",
                        entity_id |-> s.id, fetch_status |-> 0]}
                /\ sreq' = [sreq EXCEPT ![r] =
                              [@ EXCEPT !.pc = "done", !.status = 200, !.id = s.id]]
                /\ UNCHANGED <<captures, artifacts>>
    /\ UNCHANGED <<now, creq, zip, dir, builds, edits, timeline>>

(***************************************************************************)
(* create_capture: app/routers/captures.py                                  *)
(***************************************************************************)
\* The source identifiers a request may name: those create_source gives (a
\* request may come before the source exists) and s0, which create_source
\* never gives.
SourceIdInputs == {"s0"} \cup {Uuid("s", r) : r \in SourceRequests}

NewCaptureRequest ==
    [pc |-> "new", source_id |-> None, canonical_url |-> "", prev_id |-> None,
     prev_chain |-> None, captured_at |-> 0, fetch_status |-> 0,
     fetch_error |-> None, raw_bytes_sha256 |-> "", normalized_text_sha256 |-> "",
     normalized_text_len |-> 0, raised |-> FALSE, cap |-> NoRow, status |-> 0]

\* Lines 44-50: load the source, 404 when there is none.
LoadSource(r, source_id) ==
    /\ creq[r].pc = "new"
    /\ InArrivalOrder(creq, r)
    /\ LET source == SelectSource(source_id)
       IN  creq' = [creq EXCEPT ![r] =
                      IF source = NoRow
                      THEN [@ EXCEPT !.pc = "done", !.status = 404,
                                     !.source_id = source_id]
                      ELSE [@ EXCEPT !.pc = "read_prev", !.source_id = source_id,
                                     !.canonical_url = source.canonical_url]]
    /\ UNCHANGED <<store, now, sreq, zip, dir, builds, edits, timeline>>

\* Lines 52-61: the latest committed capture of the source, if any.
ReadPrev(r) ==
    /\ creq[r].pc = "read_prev"
    /\ LET latest == LatestCaptures(creq[r].source_id)
       IN  IF latest = {}
           THEN creq' = [creq EXCEPT ![r] =
                           [@ EXCEPT !.pc = "read_clock", !.prev_id = None,
                                     !.prev_chain = None]]
           ELSE \E prev_cap \in latest :
                    creq' = [creq EXCEPT ![r] =
                               [@ EXCEPT !.pc = "read_clock", !.prev_id = prev_cap.id,
                                         !.prev_chain = prev_cap.chain_sha256]]
    /\ UNCHANGED <<store, now, sreq, zip, dir, builds, edits, timeline>>

\* Lines 63-64: one reading of the clock.  Successive readings differ.
ReadClock(r) ==
    /\ creq[r].pc = "read_clock"
    /\ creq' = [creq EXCEPT ![r] = [@ EXCEPT !.pc = "fetch", !.captured_at = now]]
    /\ now' = now + 1
    /\ UNCHANGED <<store, sreq, zip, dir, builds, edits, timeline>>

\* A slip in the except branch: the digest of a message, not of no bytes.
FailurePayload_message ==
    [status |-> 0,
     raw_bytes_sha256 |-> sha256_hex("error"),
     normalized_text_sha256 |-> sha256_hex("error"),
     normalized_text_len |-> 0]

\* The except branch, lines 70-83: the payload that stands for a failed fetch.
FailurePayload ==
    [status |-> 0,
     raw_bytes_sha256 |-> sha256_hex(""),
     normalized_text_sha256 |-> sha256_hex(""),
     normalized_text_len |-> 0]

\* A fetch that is tried again when it raises.
Fetch_retried(r, resp) ==
    /\ creq[r].pc = "fetch"
    /\ creq' = [creq EXCEPT ![r] =
          IF resp.raises
          THEN [@ EXCEPT !.raised = TRUE]
          ELSE [@ EXCEPT !.pc = "insert",
                         !.fetch_status = fetch_url(resp).status,
                         !.raw_bytes_sha256 = fetch_url(resp).raw_bytes_sha256,
                         !.normalized_text_sha256 = fetch_url(resp).normalized_text_sha256,
                         !.normalized_text_len = fetch_url(resp).normalized_text_len]]
    /\ UNCHANGED <<store, now, sreq, zip, dir, builds, edits, timeline>>

\* A fetch whose exception nothing catches: the request ends with status 500
\* and its transaction is rolled back.
Fetch_uncaught(r, resp) ==
    /\ creq[r].pc = "fetch"
    /\ creq' = [creq EXCEPT ![r] =
          IF resp.raises
          THEN [@ EXCEPT !.pc = "done", !.status = 500, !.raised = TRUE]
          ELSE [@ EXCEPT !.pc = "insert",
                         !.fetch_status = fetch_url(resp).status,
                         !.raw_bytes_sha256 = fetch_url(resp).raw_bytes_sha256,
                         !.normalized_text_sha256 = fetch_url(resp).normalized_text_sha256,
                         !.normalized_text_len = fetch_url(resp).normalized_text_len]]
    /\ UNCHANGED <<store, now, sreq, zip, dir, builds, edits, timeline>>

\* Lines 66-83: fetch once; an exception becomes the failure payload.
Fetch(r, resp) ==
    /\ creq[r].pc = "fetch"
    /\ LET fetched == IF resp.raises THEN FailurePayload ELSE fetch_url(resp)
       IN  creq' = [creq EXCEPT ![r] =
              [@ EXCEPT !.pc = "insert",
                        !.raised = resp.raises,
                        !.fetch_status = fetched.status,
                        !.fetch_error = IF resp.raises THEN "ConnectError()" ELSE None,
                        !.raw_bytes_sha256 = fetched.raw_bytes_sha256,
                        !.normalized_text_sha256 = fetched.normalized_text_sha256,
                        !.normalized_text_len = fetched.normalized_text_len]]
    /\ UNCHANGED <<store, now, sreq, zip, dir, builds, edits, timeline>>

\* A row whose captured_at comes from a second reading of the clock, one
\* tick after the reading the digest was taken of.
CaptureRow_second_reading(id, source_id, canonical_url, prev_id, prev_chain, captured_at, fetched, fetch_error) ==
    [id |-> id, org_id |-> V1_ORG_ID, source_id |-> source_id,
     captured_at |-> captured_at + 1, fetch_status |-> fetched.status,
     fetch_error |-> fetch_error,
     raw_bytes_sha256 |-> fetched.raw_bytes_sha256,
     normalized_text_sha256 |-> fetched.normalized_text_sha256,
     normalized_text_len |-> fetched.normalized_text_len,
     prev_capture_id |-> prev_id,
     chain_sha256 |-> compute_chain_sha256(prev_id, prev_chain,
                         fetched.raw_bytes_sha256, fetched.normalized_text_sha256,
                         isoformat(captured_at), canonical_url)]

\* Lines 85-110: the chain digest and the capture row, from the locals of
\* create_capture.
CaptureRow(id, source_id, canonical_url, prev_id, prev_chain, captured_at, fetched, fetch_error) ==
    [id |-> id, org_id |-> V1_ORG_ID, source_id |-> source_id,
     captured_at |-> captured_at, fetch_status |-> fetched.status,
     fetch_error |-> fetch_error,
     raw_bytes_sha256 |-> fetched.raw_bytes_sha256,
     normalized_text_sha256 |-> fetched.normalized_text_sha256,
     normalized_text_len |-> fetched.normalized_text_len,
     prev_capture_id |-> prev_id,
     chain_sha256 |-> compute_chain_sha256(prev_id, prev_chain,
                         fetched.raw_bytes_sha256, fetched.normalized_text_sha256,
                         isoformat(captured_at), canonical_url)]

NewCapture(r) ==
    CaptureRow(Uuid("c", r), creq[r].source_id, creq[r].canonical_url,
               creq[r].prev_id, creq[r].prev_chain, creq[r].captured_at,
               [status |-> creq[r].fetch_status,
                raw_bytes_sha256 |-> creq[r].raw_bytes_sha256,
                normalized_text_sha256 |-> creq[r].normalized_text_sha256,
                normalized_text_len |-> creq[r].normalized_text_len],
               creq[r].fetch_error)

\* Lines 85-112: compute the chain digest, add the capture and flush it.  The
\* row is pending in the request's transaction: no other session sees it.
Insert(r) ==
    /\ creq[r].pc = "insert"
    /\ creq' = [creq EXCEPT ![r] = [@ EXCEPT !.pc = "commit", !.cap = NewCapture(r)]]
    /\ UNCHANGED <<store, now, sreq, zip, dir, builds, edits, timeline>>

\* Lines 116-133: the two artifact rows of a capture.
ArtifactsOf(cap) ==
    {[id |-> "a-raw-" \o cap.id, capture_id |-> cap.id, kind |-> "raw",
      sha256 |-> cap.raw_bytes_sha256],
     [id |-> "a-text-" \o cap.id, capture_id |-> cap.id, kind |-> "text",
      sha256 |-> cap.normalized_text_sha256]}

\* An event that calls every capture without status 200 failed.
EventOf_by_status(cap) ==
    [id |-> "e-" \o cap.id, org_id |-> V1_ORG_ID,
     event_type |-> IF cap.fetch_status = 200 THEN "capture.created"
                    ELSE "capture.failed",
     entity_type |-> "capture", entity_id |-> cap.id,
     fetch_status |-> cap.fetch_status]

\* Lines 135-144: the audit event of a capture.
EventOf(cap) ==
    [id |-> "e-" \o cap.id, org_id |-> V1_ORG_ID,
     event_type |-> IF cap.fetch_error = None THEN "capture.created"
                    ELSE "capture.failed",
     entity_type |-> "capture", entity_id |-> cap.id,
     fetch_status |-> cap.fetch_status]

\* A commit issued right after the flush of the capture row, before the
\* artifacts and the event are added.
Commit_capture_only(r) ==
    /\ creq[r].pc = "commit"
    /\ captures' = captures \cup {creq[r].cap}
    /\ creq' = [creq EXCEPT ![r] = [@ EXCEPT !.pc = "done", !.status = 200]]
    /\ UNCHANGED <<sources, artifacts, event_log, now, sreq, zip, dir, builds, edits, timeline>>

\* A commit that writes the tables anew instead of adding to them.
Commit_overwriting(r) ==
    /\ creq[r].pc = "commit"
    /\ captures' = {creq[r].cap}
    /\ artifacts' = ArtifactsOf(creq[r].cap)
    /\ event_log' = {EventOf(creq[r].cap)}
    /\ creq' = [creq EXCEPT ![r] = [@ EXCEPT !.pc = "done", !.status = 200]]
    /\ UNCHANGED <<sources, now, sreq, zip, dir, builds, edits, timeline>>

\* Lines 116-156: add the artifacts and the event, commit, answer.
Commit(r) ==
    /\ creq[r].pc = "commit"
    /\ LET cap == creq[r].cap
       IN  /\ captures' = captures \cup {cap}
           /\ artifacts' = artifacts \cup ArtifactsOf(cap)
           /\ event_log' = event_log \cup {EventOf(cap)}
    /\ creq' = [creq EXCEPT ![r] = [@ EXCEPT !.pc = "done", !.status = 200]]
    /\ UNCHANGED <<sources, now, sreq, zip, dir, builds, edits, timeline>>

(***************************************************************************)
(* build_proof_pack: src/proofpack/builder.py                               *)
(***************************************************************************)
DefaultLimit == 50

\* The limits a build may be asked for.
Limits == {0, 1, DefaultLimit}

\* The bytes of a file: what was serialized, and how many of its bytes were
\* changed since (a file with changed bytes no longer parses).  json.dumps with
\* sorted keys is injective on the documents of the model, and json.loads is
\* its inverse.
JsonBytes(data) == [kind |-> "json", data |-> data, flips |-> 0]
TextBytes(text) == [kind |-> "text", data |-> text, flips |-> 0]
Absent == [kind |-> "absent", data |-> "", flips |-> 0]

\* hashlib.sha256(file_bytes).hexdigest(): injective on the bytes.
FileSha256(bytes) == [sha256 |-> bytes]

RECURSIVE Ascending(_)
\* order_by(Capture.captured_at.asc()): the rows as a sequence.
Ascending(rows) ==
    IF rows = {} THEN <<>>
    ELSE LET first == CHOOSE c \in rows : \A d \in rows : c.captured_at <= d.captured_at
         IN  <<first>> \o Ascending(rows \ {first})

\* A query that ignores the limit.
Limit_unbounded(rows, limit) == rows

\* .limit(limit)
Limit(rows, limit) == SubSeq(rows, 1, IF limit < Len(rows) THEN limit ELSE Len(rows))

\* Lines 69-80: the timeline item of a capture row.  The column captured_at
\* is a timestamp with time zone, which keeps the instant to the microsecond;
\* the row comes back with the instant as a UTC datetime, and isoformat is
\* applied to it anew.
TimelineItem(c, canonical_url) ==
    [id |-> c.id,
     prev_capture_id |-> c.prev_capture_id,
     captured_at |-> isoformat(c.captured_at),
     canonical_url |-> canonical_url,
     raw_bytes_sha256 |-> c.raw_bytes_sha256,
     normalized_text_sha256 |-> c.normalized_text_sha256,
     chain_sha256 |-> c.chain_sha256]

\* Lines 95-101.
TimelineBytes(source_id, canonical_url, rows) ==
    JsonBytes([source_id |-> source_id,
               items |-> [i \in 1..Len(rows) |-> TimelineItem(rows[i], canonical_url)]])

\* Lines 106-108 and 114-236: the two fixed files.
MethodologyBytes ==
    TextBytes("# Methodology\n\nThis Proof Pack contains source verification data.\n")
VerifyPyBytes == TextBytes("#!/usr/bin/env python3 ... main()")

\* A manifest that lists the first two files only.
ManifestBytes_first_two(source_id, t, capture_count, files_data) ==
    JsonBytes([source_id |-> source_id, generated_at |-> isoformat(t),
               hash_algo |-> "sha256", capture_count |-> capture_count,
               files |-> SubSeq(files_data, 1, 2)])

\* Lines 244-257.
ManifestBytes(source_id, t, capture_count, files_data) ==
    JsonBytes([source_id |-> source_id, generated_at |-> isoformat(t),
               hash_algo |-> "sha256", capture_count |-> capture_count,
               files |-> files_data])

\* ZipFile.writestr(name, data) stamps the entry with the local time of the
\* call, which the archive keeps to two seconds.
ZipDateTime(t) == t \div 2

ZipEntry(name, t, data) == [name |-> name, date_time |-> ZipDateTime(t), data |-> data]

\* now.strftime("%Y%m%dT%H%M%SZ")
strftime(t) == "20260101T00000" \o ToString(t) \o "Z"

\* Lines 82-263: the archive and its name, from the rows read and the clock.
BuildArchive(source_id, canonical_url, rows, t) ==
    [filename |-> "proofpack_" \o source_id \o "_" \o strftime(t) \o ".zip",
     entries |->
       <<ZipEntry("timeline.json", t, TimelineBytes(source_id, canonical_url, rows)),
         ZipEntry("methodology.md", t, MethodologyBytes),
         ZipEntry("verify.py", t, VerifyPyBytes),
         ZipEntry("manifest.json", t,
            ManifestBytes(source_id, t, Len(rows),
               <<[path |-> "timeline.json",
                  sha256 |-> FileSha256(TimelineBytes(source_id, canonical_url, rows))],
                 [path |-> "methodology.md", sha256 |-> FileSha256(MethodologyBytes)],
                 [path |-> "verify.py", sha256 |-> FileSha256(VerifyPyBytes)]>>))>>]

\* uuid.UUID(source_id), line 46: the hyphens of the text are dropped before
\* it is read, wherever they are; the texts of the model have them after the
\* identifier only.
ParseUuid(text) == Before(text, {"-"})

RECURSIVE Hyphens(_)
\* 2^k hyphens.
Hyphens(k) == IF k = 0 THEN "-" ELSE Hyphens(k - 1) \o Hyphens(k - 1)

\* The ceiling of line 18.
ManifestCeiling == 10000

\* len(str(uuid)): the identifiers of the model stand for texts of this
\* length.
UuidLen == 36

\* len(json.dumps(manifest_data, sort_keys=True)) for a manifest of the three
\* files with 64-digit digests, without the characters of source_id and
\* generated_at and the digits of capture_count.
ManifestSkeletonLen == 402

\* Line 17: the length of the key-sorted serialization.
ManifestJsonLen(manifest_data) ==
    ManifestSkeletonLen + Len(ToString(manifest_data.capture_count))
       + Len(manifest_data.generated_at)
       + UuidLen + (Len(manifest_data.source_id) - Len(ParseUuid(manifest_data.source_id)))

\* bytes values are the file contents of the model: records with a kind.
\* The only values of a manifest that are records are the digests.
NoBytes(manifest_data) ==
    \A k \in 1..Len(manifest_data.files) : "kind" \notin DOMAIN manifest_data.files[k].sha256

\* The guard with its assert statements compiled away.
manifest_data_small_stripped(manifest_data) == TRUE

\* _assert_manifest_data_small, lines 15-26: TRUE when no assert fails.
manifest_data_small(manifest_data) ==
    ManifestJsonLen(manifest_data) < ManifestCeiling /\ NoBytes(manifest_data)

\* The number of rows the store holds: it only grows, so two equal counts are
\* the same store.
StoreSize == Cardinality(sources) + Cardinality(captures)

NoZip ==
    [ok |-> FALSE, error |-> None, filename |-> None, entries |-> <<>>,
     source_id |-> None, limit |-> 0, at |-> 0, store_size |-> 0]

\* The rows of a source with those that requests have flushed and not yet
\* committed.
WithPending(source_id) ==
    CapturesOf(source_id)
       \cup {creq[r].cap : r \in {q \in DOMAIN creq : /\ creq[q].pc = "commit"
                                                      /\ creq[q].cap.source_id = source_id}}

\* A build that reads in the sessions of the requests in flight.
BuildResult_uncommitted(source_id, limit, t) ==
    IF SelectSource(source_id) = NoRow
    THEN [NoZip EXCEPT !.error = "ValueError", !.source_id = source_id,
                       !.limit = limit, !.at = t, !.store_size = StoreSize]
    ELSE [ok |-> TRUE, error |-> None,
          filename |-> BuildArchive(source_id, SelectSource(source_id).canonical_url,
                          Limit(Ascending(WithPending(source_id)), limit), t).filename,
          entries |-> BuildArchive(source_id, SelectSource(source_id).canonical_url,
                          Limit(Ascending(WithPending(source_id)), limit), t).entries,
          source_id |-> source_id, limit |-> limit, at |-> t,
          store_size |-> StoreSize]

\* What build_proof_pack(source_id, limit) returns at clock reading t, with
\* the call it answers: the ValueError of line 55, the AssertionError of the
\* guard called at line 253, or the archive.
BuildResult(source_id, limit, t) ==
    IF SelectSource(ParseUuid(source_id)) = NoRow
    THEN [NoZip EXCEPT !.error = "ValueError", !.source_id = source_id,
                       !.limit = limit, !.at = t, !.store_size = StoreSize]
    ELSE IF ~manifest_data_small(
                BuildArchive(source_id, SelectSource(ParseUuid(source_id)).canonical_url,
                   Limit(Ascending(CapturesOf(ParseUuid(source_id))), limit),
                   t).entries[4].data.data)
    THEN [NoZip EXCEPT !.error = "AssertionError", !.source_id = source_id,
                       !.limit = limit, !.at = t, !.store_size = StoreSize]
    ELSE [ok |-> TRUE, error |-> None,
          filename |-> BuildArchive(source_id,
                          SelectSource(ParseUuid(source_id)).canonical_url,
                          Limit(Ascending(CapturesOf(ParseUuid(source_id))), limit),
                          t).filename,
          entries |-> BuildArchive(source_id,
                          SelectSource(ParseUuid(source_id)).canonical_url,
                          Limit(Ascending(CapturesOf(ParseUuid(source_id))), limit),
                          t).entries,
          source_id |-> source_id, limit |-> limit, at |-> t,
          store_size |-> StoreSize]

\* A build that records itself in the audit log.
BuildProofPack_logged(source_id, limit) ==
    /\ builds < MaxBuilds
    /\ zip' = BuildResult(source_id, limit, now)
    /\ event_log' = event_log \cup
          {[id |-> Uuid("e-p", builds), org_id |-> V1_ORG_ID,
            event_type |-> "proofpack.built", entity_type |-> "source",
            entity_id |-> source_id, fetch_status |-> 0]}
    /\ now' = now + 1
    /\ builds' = builds + 1
    /\ UNCHANGED <<sources, captures, artifacts, creq, sreq, dir, edits, timeline>>

\* build_proof_pack: reads the committed rows in a session of its own, then
\* reads the clock and writes the archive.
BuildProofPack(source_id, limit) ==
    /\ builds < MaxBuilds
    /\ zip' = BuildResult(source_id, limit, now)
    /\ now' = now + 1
    /\ builds' = builds + 1
    /\ UNCHANGED <<store, creq, sreq, dir, edits, timeline>>

(***************************************************************************)
(* get_timeline: app/routers/timelines.py                                   *)
(***************************************************************************)
RECURSIVE Descending(_)
\* order_by(Capture.captured_at.desc()): the rows as a sequence.
Descending(rows) ==
    IF rows = {} THEN <<>>
    ELSE LET first == CHOOSE c \in rows : \A d \in rows : d.captured_at <= c.captured_at
         IN  <<first>> \o Descending(rows \ {first})

\* Lines 27-37: the item of a capture row in the answer.
TimelineOutItem(c) ==
    [id |-> c.id,
     captured_at |-> isoformat(c.captured_at),
     fetch_status |-> c.fetch_status,
     raw_bytes_sha256 |-> c.raw_bytes_sha256,
     normalized_text_sha256 |-> c.normalized_text_sha256,
     chain_sha256 |-> c.chain_sha256]

NoTimeline == [status |-> 0, source_id |-> None, limit |-> 0, items |-> <<>>]

\* An answer with the oldest captures first.
TimelineOut_oldest(source_id, limit) ==
    IF SelectSource(source_id) = NoRow
    THEN [status |-> 404, source_id |-> source_id, limit |-> limit, items |-> <<>>]
    ELSE [status |-> 200, source_id |-> source_id, limit |-> limit,
          items |-> [i \in 1..Len(Limit(Ascending(CapturesOf(source_id)), limit)) |->
                       TimelineOutItem(Limit(Ascending(CapturesOf(source_id)), limit)[i])]]

\* What get_timeline(source_id, limit) answers, with the call it answers.
TimelineOut(source_id, limit) ==
    IF SelectSource(source_id) = NoRow
    THEN [status |-> 404, source_id |-> source_id, limit |-> limit, items |-> <<>>]
    ELSE [status |-> 200, source_id |-> source_id, limit |-> limit,
          items |-> [i \in 1..Len(Limit(Descending(CapturesOf(source_id)), limit)) |->
                       TimelineOutItem(Limit(Descending(CapturesOf(source_id)), limit)[i])]]

\* get_timeline: reads the committed rows and writes nothing.
GetTimeline(source_id, limit) ==
    /\ timeline' = TimelineOut(source_id, limit)
    /\ UNCHANGED <<store, now, creq, sreq, zip, dir, builds, edits>>

(***************************************************************************)
(* Unpacking: scripts/smoke_proofpack.py                                    *)
(***************************************************************************)
FileNames == {"manifest.json", "timeline.json", "methodology.md", "verify.py"}

\* zip_ref.extractall(extract_dir): each entry becomes a file.
Unzip(entries) ==
    [name \in FileNames |->
        IF \E i \in 1..Len(entries) : entries[i].name = name
        THEN entries[CHOOSE i \in 1..Len(entries) : entries[i].name = name].data
        ELSE Absent]

(***************************************************************************)
(* verify.py, the verifier the archive carries: builder.py lines 114-235     *)
(***************************************************************************)
Line(level, what, path, idx) == [level |-> level, what |-> what, path |-> path, idx |-> idx]

PassFiles == Line("PASS", "all files verified", "", -1)
PassChain == Line("PASS", "timeline capture hash chain verified", "", -1)
SkipChain == Line("SKIP", "timeline items missing chain_sha256; not verifying chain", "", -1)
\* An exception nothing catches: the interpreter prints a traceback, exit 1.
Traceback == Line("Traceback", "uncaught exception", "", -1)

Exit(out, code) == [out |-> out, code |-> code]

RECURSIVE CheckFiles(_, _, _)
\* Lines 131-146: the first file that is missing or has another digest ends
\* the run.
CheckFiles(d, files, i) ==
    IF i > Len(files) THEN <<>>
    ELSE IF d[files[i].path].kind = "absent"
    THEN <<Line("FAIL", "not found", files[i].path, -1)>>
    ELSE IF FileSha256(d[files[i].path]) # files[i].sha256
    THEN <<Line("FAIL", "hash mismatch", files[i].path, -1)>>
    ELSE CheckFiles(d, files, i + 1)

\* Lines 180-198: the first field of the item that is missing.
MissingField(item) ==
    IF item.id = None \/ item.id = "" THEN "id"
    ELSE IF item.captured_at = None THEN "captured_at"
    ELSE IF item.canonical_url = None THEN "canonical_url"
    ELSE IF item.raw_bytes_sha256 = None THEN "raw_bytes_sha256"
    ELSE IF item.normalized_text_sha256 = None THEN "normalized_text_sha256"
    ELSE IF item.chain_sha256 = None THEN "chain_sha256"
    ELSE ""

\* A verifier that joins the fields in another order.
VerifierChain_url_first(item, prev_chain) ==
    sha256_hex(Join(<<item.canonical_url, OrEmpty(item.prev_capture_id),
                      OrEmpty(prev_chain), item.raw_bytes_sha256,
                      item.normalized_text_sha256, item.captured_at>>))

\* Lines 213-222: the verifier's own chain digest.
VerifierChain(item, prev_chain) ==
    sha256_hex(Join(<<OrEmpty(item.prev_capture_id), OrEmpty(prev_chain),
                      item.raw_bytes_sha256, item.normalized_text_sha256,
                      item.captured_at, item.canonical_url>>))

RECURSIVE ReplayChain(_, _, _)
\* Lines 169-228: the loop over the items; idx is the index the report uses
\* (from 0), prev_chain the stored digest of the item before.
ReplayChain(items, idx, prev_chain) ==
    IF idx >= Len(items) THEN <<>>
    ELSE IF MissingField(items[idx + 1]) # ""
    THEN <<Line("FAIL", "missing " \o MissingField(items[idx + 1]), "", idx)>>
    ELSE IF idx = 0 /\ items[1].prev_capture_id # None
    THEN <<Line("FAIL", "prev_capture_id should be null for first item", "", idx)>>
    ELSE IF idx > 0 /\ items[idx + 1].prev_capture_id # items[idx].id
    THEN <<Line("FAIL", "prev_capture_id does not match previous item id", "", idx)>>
    ELSE IF VerifierChain(items[idx + 1], prev_chain) # items[idx + 1].chain_sha256
    THEN <<Line("FAIL", "chain_sha256 mismatch", "", idx)>>
    ELSE ReplayChain(items, idx + 1, items[idx + 1].chain_sha256)

\* A verifier that replays the first item only.
VerifyItems_first_only(items) ==
    IF Len(items) = 0 THEN Exit(<<PassFiles>>, 0)
    ELSE IF \A i \in 1..Len(items) : items[i].chain_sha256 = None
    THEN Exit(<<PassFiles, SkipChain>>, 0)
    ELSE IF ReplayChain(SubSeq(items, 1, 1), 0, None) # <<>>
    THEN Exit(<<PassFiles>> \o ReplayChain(SubSeq(items, 1, 1), 0, None), 1)
    ELSE Exit(<<PassFiles, PassChain>>, 0)

\* A verifier that reports a chain failure and still exits 0.
VerifyItems_exit_zero(items) ==
    IF Len(items) = 0 THEN Exit(<<PassFiles>>, 0)
    ELSE IF \A i \in 1..Len(items) : items[i].chain_sha256 = None
    THEN Exit(<<PassFiles, SkipChain>>, 0)
    ELSE IF ReplayChain(items, 0, None) # <<>>
    THEN Exit(<<PassFiles>> \o ReplayChain(items, 0, None), 0)
    ELSE Exit(<<PassFiles, PassChain>>, 0)

\* Lines 158-231, after timeline.json was parsed.
VerifyItems(items) ==
    IF Len(items) = 0 THEN Exit(<<PassFiles>>, 0)
    ELSE IF \A i \in 1..Len(items) : items[i].chain_sha256 = None
    THEN Exit(<<PassFiles, SkipChain>>, 0)
    ELSE IF ReplayChain(items, 0, None) # <<>>
    THEN Exit(<<PassFiles>> \o ReplayChain(items, 0, None), 1)
    ELSE Exit(<<PassFiles, PassChain>>, 0)

\* Lines 150-156.
VerifyTimeline(d) ==
    IF d["timeline.json"].kind = "absent" THEN Exit(<<PassFiles>>, 0)
    ELSE IF d["timeline.json"].flips > 0 THEN Exit(<<PassFiles, Traceback>>, 1)
    ELSE VerifyItems(d["timeline.json"].data.items)

\* A verifier that holds the manifest's capture_count against the timeline.
Verify_counting(d) ==
    IF d["manifest.json"].kind = "absent"
    THEN Exit(<<Line("FAIL", "not found", "manifest.json", -1)>>, 1)
    ELSE IF d["manifest.json"].flips > 0 THEN Exit(<<Traceback>>, 1)
    ELSE IF CheckFiles(d, d["manifest.json"].data.files, 1) # <<>>
    THEN Exit(CheckFiles(d, d["manifest.json"].data.files, 1), 1)
    ELSE IF /\ d["timeline.json"].kind # "absent" /\ d["timeline.json"].flips = 0
            /\ d["manifest.json"].data.capture_count # Len(d["timeline.json"].data.items)
    THEN Exit(<<PassFiles, Line("FAIL", "capture_count mismatch", "manifest.json", -1)>>, 1)
    ELSE VerifyTimeline(d)

\* main() of verify.py, run in directory d: what it prints and its exit code.
Verify(d) ==
    IF d["manifest.json"].kind = "absent"
    THEN Exit(<<Line("FAIL", "not found", "manifest.json", -1)>>, 1)
    ELSE IF d["manifest.json"].flips > 0 THEN Exit(<<Traceback>>, 1)
    ELSE IF CheckFiles(d, d["manifest.json"].data.files, 1) # <<>>
    THEN Exit(CheckFiles(d, d["manifest.json"].data.files, 1), 1)
    ELSE VerifyTimeline(d)

(***************************************************************************)
(* The system                                                               *)
(***************************************************************************)
NoDir == [name \in FileNames |-> Absent]

Init ==
    /\ sources = {}
    /\ captures = {}
    /\ artifacts = {}
    /\ event_log = {}
    /\ now = 1
    /\ creq = [r \in CaptureRequests |-> NewCaptureRequest]
    /\ sreq = [r \in SourceRequests |-> NewSourceRequest]
    /\ zip = NoZip
    /\ dir = NoDir
    /\ builds = 0
    /\ edits = 0
    /\ timeline = NoTimeline

\* The requests of the HTTP API, each step of each request.
Next ==
    \/ \E r \in SourceRequests, url \in Urls : SourceCheckExisting(r, url)
    \/ \E r \in SourceRequests : SourceInsertCommit(r)
    \/ \E r \in CaptureRequests, source_id \in SourceIdInputs : LoadSource(r, source_id)
    \/ \E r \in CaptureRequests : ReadPrev(r)
    \/ \E r \in CaptureRequests : ReadClock(r)
    \/ \E r \in CaptureRequests, resp \in Responses : Fetch(r, resp)
    \/ \E r \in CaptureRequests : Insert(r)
    \/ \E r \in CaptureRequests : Commit(r)

Spec == Init /\ [][Next]_vars

\* The API over a store that already holds a source whose active flag is off.
InitSeeded ==
    /\ sources = {InactiveSource}
    /\ captures = {}
    /\ artifacts = {}
    /\ event_log = {}
    /\ now = 1
    /\ creq = [r \in CaptureRequests |-> NewCaptureRequest]
    /\ sreq = [r \in SourceRequests |-> NewSourceRequest]
    /\ zip = NoZip
    /\ dir = NoDir
    /\ builds = 0
    /\ edits = 0
    /\ timeline = NoTimeline

SpecSeeded == InitSeeded /\ [][Next]_vars

\* The API together with proof-pack builds, which may come at any moment.
NextPack ==
    \/ Next
    \/ \E source_id \in SourceIdInputs, limit \in Limits : BuildProofPack(source_id, limit)

SpecPack == Init /\ [][NextPack]_vars

(***************************************************************************)
(* The verifier on packs that were edited after they were built             *)
(***************************************************************************)
SampleUrl == "http://a.io/x"

RECURSIVE SerialChain(_)
\* The rows n create_capture requests leave when each runs after the one
\* before has committed: the k-th reads the (k-1)-th as the latest capture.
SerialChain(n) ==
    IF n = 0 THEN <<>>
    ELSE Append(SerialChain(n - 1),
                CaptureRow(Uuid("c", n), "s1", SampleUrl,
                           IF n = 1 THEN None ELSE SerialChain(n - 1)[n - 1].id,
                           IF n = 1 THEN None ELSE SerialChain(n - 1)[n - 1].chain_sha256,
                           n, fetch_url([raises |-> FALSE, status |-> 200,
                                         content |-> "<p>a  b</p>"]), None))

\* The directories that unpacking a fresh proof pack of such a chain gives.
SampleDirs ==
    {Unzip(BuildArchive("s1", SampleUrl, SerialChain(n), n + 1).entries) : n \in 0..MaxChain}

Readable(d, name) == d[name].kind # "absent" /\ d[name].flips = 0

\* One byte of a file is changed.
FlipByte(name) ==
    /\ edits < MaxEdits
    /\ dir[name].kind # "absent"
    /\ dir' = [dir EXCEPT ![name].flips = @ + 1]
    /\ edits' = edits + 1
    /\ UNCHANGED <<store, now, creq, sreq, zip, builds, timeline>>

\* A file is removed.
DeleteFile(name) ==
    /\ edits < MaxEdits
    /\ dir[name].kind # "absent"
    /\ dir' = [dir EXCEPT ![name] = Absent]
    /\ edits' = edits + 1
    /\ UNCHANGED <<store, now, creq, sreq, zip, builds, timeline>>

\* The identifiers a rewritten prev_capture_id may take.
PrevValues == {None} \cup {Uuid("c", n) : n \in 1..MaxChain}

\* The prev_capture_id of item i of timeline.json is rewritten.
RewritePrev(i, v) ==
    /\ edits < MaxEdits
    /\ Readable(dir, "timeline.json")
    /\ i \in 1..Len(dir["timeline.json"].data.items)
    /\ dir["timeline.json"].data.items[i].prev_capture_id # v
    /\ dir' = [dir EXCEPT !["timeline.json"].data.items[i].prev_capture_id = v]
    /\ edits' = edits + 1
    /\ UNCHANGED <<store, now, creq, sreq, zip, builds, timeline>>

\* The manifest's digest of a file is replaced by the digest the file has now.
Rehash(k) ==
    /\ edits < MaxEdits
    /\ Readable(dir, "manifest.json")
    /\ k \in 1..Len(dir["manifest.json"].data.files)
    /\ dir[dir["manifest.json"].data.files[k].path].kind # "absent"
    /\ dir["manifest.json"].data.files[k].sha256
          # FileSha256(dir[dir["manifest.json"].data.files[k].path])
    /\ dir' = [dir EXCEPT !["manifest.json"].data.files[k].sha256 =
                             FileSha256(dir[dir["manifest.json"].data.files[k].path])]
    /\ edits' = edits + 1
    /\ UNCHANGED <<store, now, creq, sreq, zip, builds, timeline>>

InitVerify ==
    /\ sources = {}
    /\ captures = {}
    /\ artifacts = {}
    /\ event_log = {}
    /\ now = 1
    /\ creq = [r \in CaptureRequests |-> NewCaptureRequest]
    /\ sreq = [r \in SourceRequests |-> NewSourceRequest]
    /\ zip = NoZip
    /\ dir \in SampleDirs
    /\ builds = 0
    /\ edits = 0
    /\ timeline = NoTimeline

NextVerify ==
    \/ \E name \in FileNames : FlipByte(name)
    \/ \E name \in FileNames : DeleteFile(name)
    \/ \E i \in 1..MaxChain, v \in PrevValues : RewritePrev(i, v)
    \/ \E k \in 1..3 : Rehash(k)

SpecVerify == InitVerify /\ [][NextVerify]_vars

(***************************************************************************)
(* Claims about the capture chain                                           *)
(***************************************************************************)
SameSource(c, d) == c.source_id = d.source_id /\ c.org_id = d.org_id

\* C1: concurrent create_capture requests on one source never leave two
\* captures of that source with the same prev_capture_id (no fork).
C1_NoFork ==
    \A c \in captures, d \in captures :
        (SameSource(c, d) /\ c.id # d.id) => c.prev_capture_id # d.prev_capture_id

\* The captures of c's source taken before c.
Earlier(c) == {d \in captures : SameSource(c, d) /\ d.captured_at < c.captured_at}

\* The capture just before c in captured_at order.
IsPredecessor(p, c) ==
    p \in Earlier(c) /\ \A d \in Earlier(c) : d.captured_at <= p.captured_at

\* C2: in every store state the captures of a source, in captured_at order,
\* are strictly ordered and each but the earliest names the one just before
\* it as prev_capture_id.
C2_LinkedInTimeOrder ==
    \A c \in captures :
        /\ \A d \in captures :
              (SameSource(c, d) /\ c.id # d.id) => c.captured_at # d.captured_at
        /\ \A p \in captures : IsPredecessor(p, c) => c.prev_capture_id = p.id

\* The row a capture names as its predecessor, if any.
Referenced(c) == {p \in captures : p.id = c.prev_capture_id}

\* The canonical URL of the source of a capture.
UrlOf(c) == {s.canonical_url : s \in {t \in sources : t.id = c.source_id}}

\* C3: each stored capture's chain_sha256 is SHA-256 of
\* prev_capture_id|prev_chain|raw|norm|captured_at|canonical_url, with the id
\* and the stored chain digest of the capture it references (both empty when
\* it references none), its own digests and timestamp, and its source's URL.
C3_ChainFormula ==
    \A c \in captures :
        /\ c.prev_capture_id # None => Referenced(c) # {}
        /\ \E url \in UrlOf(c) :
           \E pc \in (IF c.prev_capture_id = None THEN {""}
                      ELSE {p.chain_sha256 : p \in Referenced(c)}) :
              c.chain_sha256 =
                 "sha256<" \o (IF c.prev_capture_id = None THEN "" ELSE c.prev_capture_id)
                 \o "|" \o pc \o "|" \o c.raw_bytes_sha256
                 \o "|" \o c.normalized_text_sha256
                 \o "|" \o isoformat(c.captured_at) \o "|" \o url \o ">"

\* A capture of a document that was fetched, chained to a predecessor.
C3_Witness ==
    \E c \in captures :
        /\ c.prev_capture_id # None
        /\ c.fetch_status = 200
        /\ c.raw_bytes_sha256 # c.normalized_text_sha256

\* C9: a request whose fetch raised ends with a committed capture that has
\* fetch_status 0, both digests the digest of no bytes, length 0, an error
\* text, the predecessor the request read, and the chain digest of the
\* formula.
C9_FetchFailureCapture ==
    \A r \in CaptureRequests :
        creq[r].raised =>
            /\ creq[r].pc \in {"insert", "commit", "done"}
            /\ creq[r].pc = "done" =>
                 /\ creq[r].status = 200
                 /\ \E c \in captures :
                      /\ c.id = creq[r].cap.id
                      /\ c.source_id = creq[r].source_id
                      /\ c.fetch_status = 0
                      /\ c.raw_bytes_sha256 = "sha256<>"
                      /\ c.normalized_text_sha256 = "sha256<>"
                      /\ c.normalized_text_len = 0
                      /\ c.fetch_error # None
                      /\ c.prev_capture_id = creq[r].prev_id
                      /\ c.chain_sha256 =
                           "sha256<"
                           \o (IF creq[r].prev_id = None THEN "" ELSE creq[r].prev_id)
                           \o "|"
                           \o (IF creq[r].prev_chain = None THEN "" ELSE creq[r].prev_chain)
                           \o "|sha256<>|sha256<>|" \o isoformat(c.captured_at)
                           \o "|" \o creq[r].canonical_url \o ">"

\* A failed fetch committed on top of an earlier capture.
C9_Witness ==
    \E r \in CaptureRequests :
        creq[r].raised /\ creq[r].pc = "done" /\ creq[r].prev_id # None

\* The row of the source a request names.
NamedSource(r) == {s \in sources : s.id = creq[r].source_id /\ s.org_id = V1_ORG_ID}

\* C10: create_capture answers 404 and creates no capture when the source is
\* absent or its active flag is false.
C10_NotFoundWhenAbsentOrInactive ==
    /\ \A r \in CaptureRequests :
          (creq[r].pc # "new" /\ \A s \in NamedSource(r) : ~s.is_active)
              => (creq[r].pc = "done" /\ creq[r].status = 404)
    /\ \A c \in captures : \A s \in sources : s.id = c.source_id => s.is_active

(***************************************************************************)
(* Claims about proof packs and the verifier                                *)
(***************************************************************************)
Lines(v) == {v.out[j] : j \in 1..Len(v.out)}

Failures(v) == {l \in Lines(v) : l.level \in {"FAIL", "Traceback"}}

\* C4: for every reachable store and every source, the pack build_proof_pack
\* returns, unpacked as it is, makes the verifier report PASS for the files
\* and for the chain and exit 0.  (A timeline without items has no chain to
\* report on.)
C4_FreshPackPasses ==
    zip.ok =>
        /\ Verify(Unzip(zip.entries)).code = 0
        /\ Failures(Verify(Unzip(zip.entries))) = {}
        /\ PassFiles \in Lines(Verify(Unzip(zip.entries)))
        /\ Unzip(zip.entries)["timeline.json"].data.items # <<>>
              => PassChain \in Lines(Verify(Unzip(zip.entries)))

\* The manifest document without its generated_at.
WithoutGeneratedAt(data) == [data EXCEPT !.generated_at = ""]

\* Two archives that differ at most in the manifest's generated_at.
SameButGeneratedAt(a, b) ==
    /\ Len(a) = Len(b)
    /\ \A i \in 1..Len(a) :
          /\ a[i].name = b[i].name
          /\ a[i].date_time = b[i].date_time
          /\ IF a[i].name = "manifest.json"
             THEN WithoutGeneratedAt(a[i].data.data) = WithoutGeneratedAt(b[i].data.data)
             ELSE a[i].data = b[i].data

\* C5: two builds for the same source and limit over an unchanged store, at
\* different clock readings, return archives that are equal but for the
\* manifest's generated_at: in particular in entry order and entry timestamps.
C5_ReproducibleArchive ==
    [][(/\ builds' = builds + 1
        /\ zip.ok /\ zip'.ok
        /\ zip'.source_id = zip.source_id
        /\ zip'.limit = zip.limit
        /\ zip'.store_size = zip.store_size
        /\ zip'.at # zip.at)
       => SameButGeneratedAt(zip.entries, zip'.entries)]_vars

\* The files the manifest lists whose file is missing or has another digest.
BadFiles(d) ==
    {d["manifest.json"].data.files[k].path :
        k \in {j \in 1..Len(d["manifest.json"].data.files) :
                 \/ d[d["manifest.json"].data.files[j].path].kind = "absent"
                 \/ FileSha256(d[d["manifest.json"].data.files[j].path])
                       # d["manifest.json"].data.files[j].sha256}}

\* The indexes (from 0, as the report counts) of the items whose
\* prev_capture_id is not the id of the item before.
BrokenLinks(d) ==
    {i - 1 : i \in {j \in 2..Len(d["timeline.json"].data.items) :
                      d["timeline.json"].data.items[j].prev_capture_id
                         # d["timeline.json"].data.items[j - 1].id}}

FileReported(v, path) == \E l \in Lines(v) : l.level = "FAIL" /\ l.path = path

LinkReported(v, idx) ==
    \E l \in Lines(v) :
        /\ l.level = "FAIL"
        /\ l.what = "prev_capture_id does not match previous item id"
        /\ l.idx = idx

\* C6: when a file the manifest lists is missing or has another digest, the
\* verifier reports a failure that names this file and exits non-zero.
C6_BadFileReported ==
    Readable(dir, "manifest.json") =>
        \A path \in BadFiles(dir) :
            Verify(dir).code # 0 /\ FileReported(Verify(dir), path)

\* C7: when the prev_capture_id of an item at index i >= 1 is not the id of
\* item i-1, the verifier exits non-zero and reports a chain break at index i.
C7_BrokenLinkReported ==
    (Readable(dir, "manifest.json") /\ Readable(dir, "timeline.json")) =>
        \A idx \in BrokenLinks(dir) :
            Verify(dir).code # 0 /\ LinkReported(Verify(dir), idx)

\* C8: when the pack has several defects (files with a wrong digest, broken
\* chain links), the verifier reports each of them before it fails.
C8_EveryDefectReported ==
    (/\ Readable(dir, "manifest.json") /\ Readable(dir, "timeline.json")
     /\ Cardinality(BadFiles(dir)) + Cardinality(BrokenLinks(dir)) >= 2) =>
        /\ \A path \in BadFiles(dir) : FileReported(Verify(dir), path)
        /\ \A idx \in BrokenLinks(dir) : LinkReported(Verify(dir), idx)

(***************************************************************************)
(* canonicalize_url over a family of URLs                                   *)
(***************************************************************************)
\* The components the URLs are put together from: scheme, userinfo, host,
\* path, query (with its "?") and fragment (with its "#").
Schemes == {"http", "HTTP"}
UserInfos == {"", "A@"}
Hosts == {"a.io", "B.io"}
Paths == {"", "/", "/x", "/X", "/x/", "/x//"}
Queries == {"", "?q=A"}
Fragments == {"", "#T"}

BuildUrl(s, u, h, p, q, f) == s \o "://" \o u \o h \o p \o q \o f

UrlInputs ==
    {BuildUrl(s, u, h, p, q, f) :
        s \in Schemes, u \in UserInfos, h \in Hosts, p \in Paths, q \in Queries,
        f \in Fragments}

\* One create_source request, which canonicalizes the URL it is given.
InitUrl ==
    /\ sources = {}
    /\ captures = {}
    /\ artifacts = {}
    /\ event_log = {}
    /\ now = 1
    /\ creq = [r \in CaptureRequests |-> NewCaptureRequest]
    /\ sreq = [r \in {1} |-> NewSourceRequest]
    /\ zip = NoZip
    /\ dir = NoDir
    /\ builds = 0
    /\ edits = 0
    /\ timeline = NoTimeline

NextUrl ==
    \/ \E url \in UrlInputs : SourceCheckExisting(1, url)
    \/ SourceInsertCommit(1)

SpecUrl == InitUrl /\ [][NextUrl]_vars

(***************************************************************************)
(* Claims about canonicalize_url                                            *)
(***************************************************************************)
\* C11: canonicalize_url is idempotent: canonicalizing the canonical URL of
\* any URL, also one whose path ends in several slashes, gives it back.
C11_Idempotent ==
    \A r \in DOMAIN sreq :
        sreq[r].pc \in {"insert", "done"} =>
            canonicalize_url(sreq[r].canonical) = sreq[r].canonical

\* The path the rules ask for: "/" for none, one trailing slash off any other
\* path than the root.
ExpectedPath(p) ==
    IF p = "" THEN "/"
    ELSE IF p # "/" /\ SubSeq(p, Len(p), Len(p)) = "/" THEN SubSeq(p, 1, Len(p) - 1)
    ELSE p

\* C12: canonicalize_url returns the URL with scheme and host in lower case,
\* no fragment, "/" for an empty path, one trailing slash off a non-root
\* path, and the query as it was; userinfo and the case of path and query
\* stay as they were.
C12_CanonicalForm ==
    \A r \in DOMAIN sreq :
        \A s \in Schemes, u \in UserInfos, h \in Hosts, p \in Paths, q \in Queries,
           f \in Fragments :
            (sreq[r].pc \in {"insert", "done"} /\ sreq[r].url = BuildUrl(s, u, h, p, q, f))
                => sreq[r].canonical
                      = Lower(s) \o "://" \o u \o Lower(h) \o ExpectedPath(p) \o q

(***************************************************************************)
(* Concurrent create_source requests                                        *)
(***************************************************************************)
NumConcurrentSources == 2

\* The URLs of the requests: some of them have one canonical URL.
SourceUrls == Urls \cup {"http://a.io/x#T", "http://B.io", "http://B.io/", "http://a.io/X"}

InitSources ==
    /\ sources = {}
    /\ captures = {}
    /\ artifacts = {}
    /\ event_log = {}
    /\ now = 1
    /\ creq = [r \in CaptureRequests |-> NewCaptureRequest]
    /\ sreq = [r \in 1..NumConcurrentSources |-> NewSourceRequest]
    /\ zip = NoZip
    /\ dir = NoDir
    /\ builds = 0
    /\ edits = 0
    /\ timeline = NoTimeline

NextSources ==
    \/ \E r \in DOMAIN sreq, url \in SourceUrls : SourceCheckExisting(r, url)
    \/ \E r \in DOMAIN sreq : SourceInsertCommit(r)

SpecSources == InitSources /\ [][NextSources]_vars

\* C13: whatever the interleaving of create_source requests, no two sources
\* of a tenant have one canonical_url, and the canonical_url of every source
\* is canonicalize_url of its url.
C13_UniqueCanonical ==
    /\ \A s \in sources : \A t \in sources :
          (s.org_id = t.org_id /\ s.canonical_url = t.canonical_url) => s = t
    /\ \A s \in sources : s.canonical_url = canonicalize_url(s.url)

\* Two requests passed the check with one canonical URL, and both ended.
C13_Witness ==
    \E r \in DOMAIN sreq : \E q \in DOMAIN sreq :
        /\ r # q
        /\ sreq[r].pc = "done" /\ sreq[q].pc = "done"
        /\ sreq[r].canonical # "" /\ sreq[r].canonical = sreq[q].canonical
        /\ sreq[r].url # sreq[q].url

\* C14: a request that fails at persistence (a concurrent duplicate that
\* passed the check and hits the unique constraint) is answered 409, as a
\* sequential duplicate is.
C14_PersistenceFailureIsConflict ==
    \A r \in DOMAIN sreq :
        (sreq[r].pc = "done" /\ sreq[r].status # 200) => sreq[r].status = 409

(***************************************************************************)
(* create_capture on a database that may fail                               *)
(***************************************************************************)
\* Lines 111-146: the flush of the capture row, the flush of the artifacts
\* and the event, or the commit raises (connection lost, constraint error).
\* Nothing catches the error: the session closes without a commit (app/db.py
\* get_db), which rolls the pending rows back, and the answer is 500.
PersistenceFails(r) ==
    /\ creq[r].pc \in {"insert", "commit"}
    /\ creq' = [creq EXCEPT ![r] = [@ EXCEPT !.pc = "done", !.status = 500]]
    /\ UNCHANGED <<store, now, sreq, zip, dir, builds, edits, timeline>>

NextFaulty ==
    \/ Next
    \/ \E r \in CaptureRequests : PersistenceFails(r)

SpecFaulty == Init /\ [][NextFaulty]_vars

\* The artifacts and the audit events that refer to a capture id.
ArtifactsFor(id) == {a \in artifacts : a.capture_id = id}
EventsFor(id) == {e \in event_log : e.entity_type = "capture" /\ e.entity_id = id}

\* C15: the writes of one create_capture are atomic: every committed capture
\* has exactly two artifacts, one raw and one text with the capture's
\* digests, and exactly one audit event; no artifact or event is there
\* without its capture, and a request whose writes failed leaves no row.
C15_AtomicWrites ==
    /\ \A c \in captures :
          /\ Cardinality(ArtifactsFor(c.id)) = 2
          /\ \E a \in ArtifactsFor(c.id) : a.kind = "raw" /\ a.sha256 = c.raw_bytes_sha256
          /\ \E a \in ArtifactsFor(c.id) :
                a.kind = "text" /\ a.sha256 = c.normalized_text_sha256
          /\ Cardinality(EventsFor(c.id)) = 1
    /\ \A a \in artifacts : \E c \in captures : c.id = a.capture_id
    /\ \A e \in event_log :
          e.entity_type = "capture" => \E c \in captures : c.id = e.entity_id
    /\ \A r \in CaptureRequests :
          (creq[r].pc = "done" /\ creq[r].status = 500) =>
              /\ \A c \in captures : c.id # Uuid("c", r)
              /\ ArtifactsFor(Uuid("c", r)) = {}
              /\ EventsFor(Uuid("c", r)) = {}

\* One request failed after its capture row was flushed, another committed.
C15_Witness ==
    \E r \in CaptureRequests : \E q \in CaptureRequests :
        /\ creq[r].pc = "done" /\ creq[r].status = 500 /\ creq[r].cap # NoRow
        /\ creq[q].pc = "done" /\ creq[q].status = 200

(***************************************************************************)
(* All operations together                                                  *)
(***************************************************************************)
\* The writers (create_source, create_capture) and the readers (get_timeline,
\* build_proof_pack) in any order; each reader is called once.
NumAuditRequests == 1

InitReads ==
    /\ sources = {}
    /\ captures = {}
    /\ artifacts = {}
    /\ event_log = {}
    /\ now = 1
    /\ creq = [r \in 1..NumAuditRequests |-> NewCaptureRequest]
    /\ sreq = [r \in SourceRequests |-> NewSourceRequest]
    /\ zip = NoZip
    /\ dir = NoDir
    /\ builds = 0
    /\ edits = 0
    /\ timeline = NoTimeline

NextReads ==
    \/ \E r \in SourceRequests, url \in Urls : SourceCheckExisting(r, url)
    \/ \E r \in SourceRequests : SourceInsertCommit(r)
    \/ \E r \in DOMAIN creq, source_id \in SourceIdInputs : LoadSource(r, source_id)
    \/ \E r \in DOMAIN creq : ReadPrev(r)
    \/ \E r \in DOMAIN creq : ReadClock(r)
    \/ \E r \in DOMAIN creq, resp \in Responses : Fetch(r, resp)
    \/ \E r \in DOMAIN creq : Insert(r)
    \/ \E r \in DOMAIN creq : Commit(r)
    \/ \E source_id \in SourceIdInputs, limit \in {1, DefaultLimit} :
          timeline = NoTimeline /\ GetTimeline(source_id, limit)
    \/ \E source_id \in SourceIdInputs :
          builds = 0 /\ BuildProofPack(source_id, DefaultLimit)

SpecReads == InitReads /\ [][NextReads]_vars

ChainedFields == {"id", "raw_bytes_sha256", "normalized_text_sha256", "captured_at", "canonical_url"}

OtherValues(field) ==
    CASE field = "id" -> {"cX", "cY"}
      [] field = "raw_bytes_sha256" -> {sha256_hex("<p>z</p>"), sha256_hex("")}
      [] field = "normalized_text_sha256" -> {sha256_hex("z"), sha256_hex("")}
      [] field = "captured_at" -> {isoformat(8), isoformat(9)}
      [] field = "canonical_url" -> {"http://a.io/z", "http://b.io/"}

RECURSIVE Rechain(_, _)
\* The first n items with the chain recomputed by the formula of
\* create_capture: each item refers to the item before and is digested with
\* that item's id and digest.
Rechain(items, n) ==
    IF n = 0 THEN <<>>
    ELSE Append(Rechain(items, n - 1),
                [items[n] EXCEPT
                   !.prev_capture_id =
                       IF n = 1 THEN None ELSE items[n - 1].id,
                   !.chain_sha256 =
                       compute_chain_sha256(
                           IF n = 1 THEN None ELSE items[n - 1].id,
                           IF n = 1 THEN None
                           ELSE Rechain(items, n - 1)[n - 1].chain_sha256,
                           items[n].raw_bytes_sha256, items[n].normalized_text_sha256,
                           items[n].captured_at, items[n].canonical_url)])

\* The items with the field of item k set to v and the chain recomputed.
Retouched(items, k, field, v) ==
    Rechain([items EXCEPT ![k][field] = v], Len(items))

\* A chained field of item k of timeline.json is changed and the chain is
\* recomputed.
Retouch(k, field, v) ==
    /\ edits < MaxEdits
    /\ Readable(dir, "timeline.json")
    /\ k \in 1..Len(dir["timeline.json"].data.items)
    /\ dir["timeline.json"].data.items[k][field] # v
    /\ dir' = [dir EXCEPT !["timeline.json"].data.items = Retouched(@, k, field, v)]
    /\ edits' = edits + 1
    /\ UNCHANGED <<store, now, creq, sreq, zip, builds, timeline>>

NextChain ==
    \E k \in 1..(MaxChain + 1), field \in ChainedFields :
        \E v \in OtherValues(field) : Retouch(k, field, v)

SpecChain == InitVerify /\ [][NextChain]_vars

\* The step changed the given field of item k and recomputed the chain.
RetouchedAt(k, field) ==
    /\ edits' = edits + 1
    /\ k \in 1..Len(dir["timeline.json"].data.items)
    /\ \E v \in OtherValues(field) :
          /\ dir["timeline.json"].data.items[k][field] # v
          /\ dir'["timeline.json"].data.items
                = Retouched(dir["timeline.json"].data.items, k, field, v)

\* The chain digest of item i differs before and after the step.
DigestChanges(i) ==
    dir'["timeline.json"].data.items[i].chain_sha256
        # dir["timeline.json"].data.items[i].chain_sha256

\* C17: changing any one chained field (id, raw digest, normalized digest,
\* captured_at, canonical URL) of item k and recomputing the chain changes
\* the chain digest of every item from k on and of no item before k.
C17_AnyFieldChangesFromK ==
    [][\A k \in 1..(MaxChain + 1), field \in ChainedFields :
          RetouchedAt(k, field) =>
              \A i \in 1..Len(dir["timeline.json"].data.items) :
                  DigestChanges(i) <=> i >= k]_vars

\* C17, as the formula has it: a capture's own id is not among the fields
\* its digest is taken of, only the id of the capture before.  Changing the
\* raw digest, the normalized digest, captured_at or the canonical URL of
\* item k changes the digest of every item from k on; changing the id of
\* item k changes the digest of every item after k, and not that of item k.
\* No digest before k changes.
C17_FieldChangesFromK_IdAfterK ==
    [][\A k \in 1..(MaxChain + 1), field \in ChainedFields :
          RetouchedAt(k, field) =>
              \A i \in 1..Len(dir["timeline.json"].data.items) :
                  DigestChanges(i) <=> (IF field = "id" THEN i > k ELSE i >= k)]_vars

\* A chain of two or more items of which one that has a successor got
\* another id, and one got another raw digest.
C17_Witness ==
    /\ Readable(dir, "timeline.json")
    /\ Len(dir["timeline.json"].data.items) >= 2
    /\ \E k \in 1..(Len(dir["timeline.json"].data.items) - 1) :
          dir["timeline.json"].data.items[k].id \in OtherValues("id")
    /\ \E k \in 1..Len(dir["timeline.json"].data.items) :
          dir["timeline.json"].data.items[k].raw_bytes_sha256
             \in OtherValues("raw_bytes_sha256")

(***************************************************************************)
(* Claims about the first capture and the capture time                      *)
(***************************************************************************)
\* C18: a capture has no prev_capture_id exactly when it is the earliest
\* capture of its source (so a source with captures has exactly one such
\* capture), and the chain digest of that capture is the digest of the
\* formula with the empty string for the predecessor's id and digest.
C18_NullPrevIffFirst ==
    \A c \in captures :
        /\ c.prev_capture_id = None <=> Earlier(c) = {}
        /\ c.prev_capture_id = None =>
              /\ Cardinality({d \in captures :
                                SameSource(c, d) /\ d.prev_capture_id = None}) = 1
              /\ \A url \in UrlOf(c) :
                    c.chain_sha256 =
                        "sha256<||" \o c.raw_bytes_sha256 \o "|" \o c.normalized_text_sha256
                        \o "|" \o isoformat(c.captured_at) \o "|" \o url \o ">"

\* The text the chain digest is taken of, digested.
ChainDigestOf(prev_id, prev_chain, raw_sha, norm_sha, at_iso, url) ==
    "sha256<" \o (IF prev_id = None THEN "" ELSE prev_id)
    \o "|" \o (IF prev_chain = None THEN "" ELSE prev_chain)
    \o "|" \o raw_sha \o "|" \o norm_sha \o "|" \o at_iso \o "|" \o url \o ">"

\* C19: the captured_at a capture is stored with and the ISO-8601 text in
\* its chain digest come from the one clock reading of its request, and the
\* captured_at text build_proof_pack writes for the capture is the text that
\* is in its chain digest.
C19_OneClockReading ==
    /\ \A r \in DOMAIN creq :
          (creq[r].pc = "done" /\ creq[r].status = 200) =>
              \E c \in captures :
                  /\ c.id = Uuid("c", r)
                  /\ c.captured_at = creq[r].captured_at
                  /\ c.chain_sha256 =
                        ChainDigestOf(creq[r].prev_id, creq[r].prev_chain,
                                      c.raw_bytes_sha256, c.normalized_text_sha256,
                                      isoformat(creq[r].captured_at),
                                      creq[r].canonical_url)
    /\ zip.ok =>
          \A i \in 1..Len(zip.entries[1].data.data.items) :
              \A r \in DOMAIN creq :
                  zip.entries[1].data.data.items[i].id = Uuid("c", r) =>
                      zip.entries[1].data.data.items[i].chain_sha256 =
                          ChainDigestOf(creq[r].prev_id, creq[r].prev_chain,
                              zip.entries[1].data.data.items[i].raw_bytes_sha256,
                              zip.entries[1].data.data.items[i].normalized_text_sha256,
                              zip.entries[1].data.data.items[i].captured_at,
                              creq[r].canonical_url)

\* A pack was built with the item of a committed capture in it.
C19_Witness ==
    /\ zip.ok
    /\ \E i \in 1..Len(zip.entries[1].data.data.items) :
          \E r \in DOMAIN creq :
              /\ creq[r].pc = "done" /\ creq[r].status = 200
              /\ zip.entries[1].data.data.items[i].id = Uuid("c", r)

(***************************************************************************)
(* Packs whose timeline items carry no chain digest                         *)
(***************************************************************************)
\* Item i of timeline.json loses its chain_sha256, and the manifest gets the
\* digest of the file as it is then: a pack sealed without that digest.
StripChain(i) ==
    /\ edits < MaxEdits
    /\ Readable(dir, "timeline.json") /\ Readable(dir, "manifest.json")
    /\ i \in 1..Len(dir["timeline.json"].data.items)
    /\ dir["timeline.json"].data.items[i].chain_sha256 # None
    /\ dir["manifest.json"].data.files[1].path = "timeline.json"
    /\ dir' = [dir EXCEPT
                 !["timeline.json"].data.items[i].chain_sha256 = None,
                 !["manifest.json"].data.files[1].sha256 =
                     FileSha256([dir["timeline.json"] EXCEPT
                                   !.data.items[i].chain_sha256 = None])]
    /\ edits' = edits + 1
    /\ UNCHANGED <<store, now, creq, sreq, zip, builds, timeline>>

NextSkip ==
    \/ NextVerify
    \/ \E i \in 1..(MaxChain + 1) : StripChain(i)

SpecSkip == InitVerify /\ [][NextSkip]_vars

\* C20: when no item of the timeline carries a chain digest (an empty item
\* list included) and the files are as the manifest says, the verifier
\* reports that it skipped the chain and exits 0; when only some items lack
\* the digest it does not skip.
C20_SkipReported ==
    (/\ Readable(dir, "manifest.json") /\ Readable(dir, "timeline.json")
     /\ BadFiles(dir) = {}) =>
        /\ (\A i \in 1..Len(dir["timeline.json"].data.items) :
               dir["timeline.json"].data.items[i].chain_sha256 = None)
              => (SkipChain \in Lines(Verify(dir)) /\ Verify(dir).code = 0)
        /\ (/\ \E i \in 1..Len(dir["timeline.json"].data.items) :
                  dir["timeline.json"].data.items[i].chain_sha256 = None
            /\ \E i \in 1..Len(dir["timeline.json"].data.items) :
                  dir["timeline.json"].data.items[i].chain_sha256 # None)
              => SkipChain \notin Lines(Verify(dir))

(***************************************************************************)
(* Claims about the verifier's verdict                                      *)
(***************************************************************************)
\* Item i of the items is linked to the item before and carries the digest
\* of the formula, taken with the digest stored in the item before.
ItemHolds(items, i) ==
    /\ items[i].chain_sha256 # None
    /\ items[i].prev_capture_id = (IF i = 1 THEN None ELSE items[i - 1].id)
    /\ items[i].chain_sha256 =
          ChainDigestOf(items[i].prev_capture_id,
                        IF i = 1 THEN None ELSE items[i - 1].chain_sha256,
                        items[i].raw_bytes_sha256, items[i].normalized_text_sha256,
                        items[i].captured_at, items[i].canonical_url)

\* No check of the verifier has a reason to fail in directory d.
NothingWrong(d) ==
    /\ Readable(d, "manifest.json")
    /\ BadFiles(d) = {}
    /\ Readable(d, "timeline.json")
    /\ \/ \A i \in 1..Len(d["timeline.json"].data.items) :
             d["timeline.json"].data.items[i].chain_sha256 = None
       \/ \A i \in 1..Len(d["timeline.json"].data.items) :
             ItemHolds(d["timeline.json"].data.items, i)

\* C21: the verifier exits 0 exactly when no check failed: the manifest is
\* there, every listed file is there with the listed digest, and the chain
\* verified or was skipped for want of digests; every failure it reports
\* comes with a non-zero exit code.
C21_ExitZeroIffNoFailure ==
    /\ Verify(dir).code = 0 <=> NothingWrong(dir)
    /\ Failures(Verify(dir)) # {} => Verify(dir).code # 0

\* The files are as the manifest says, the chain of two items is broken, and
\* the verifier failed.
C21_Witness ==
    /\ Readable(dir, "manifest.json") /\ Readable(dir, "timeline.json")
    /\ BadFiles(dir) = {}
    /\ Len(dir["timeline.json"].data.items) = 2
    /\ ~ItemHolds(dir["timeline.json"].data.items, 2)
    /\ Verify(dir).code = 1

(***************************************************************************)
(* Claims about the archive                                                 *)
(***************************************************************************)
\* The entries of an archive with the given name, by position.
EntriesNamed(entries, name) == {i \in 1..Len(entries) : entries[i].name = name}

\* The files list of the manifest an archive carries.
ManifestFiles(entries) ==
    entries[CHOOSE i \in EntriesNamed(entries, "manifest.json") : TRUE].data.data.files

\* C22: in every archive build_proof_pack returns, the manifest's files list
\* has exactly one entry for each archive entry other than manifest.json,
\* with the digest of the bytes the archive stores for that path, and none
\* for manifest.json.
C22_ManifestIndexesOtherFiles ==
    zip.ok =>
        /\ Cardinality(EntriesNamed(zip.entries, "manifest.json")) = 1
        /\ \A i \in 1..Len(zip.entries) :
              zip.entries[i].name # "manifest.json" =>
                  /\ Cardinality({k \in 1..Len(ManifestFiles(zip.entries)) :
                        ManifestFiles(zip.entries)[k].path = zip.entries[i].name}) = 1
                  /\ \A k \in 1..Len(ManifestFiles(zip.entries)) :
                        ManifestFiles(zip.entries)[k].path = zip.entries[i].name =>
                            ManifestFiles(zip.entries)[k].sha256
                               = FileSha256(zip.entries[i].data)
        /\ \A k \in 1..Len(ManifestFiles(zip.entries)) :
              /\ ManifestFiles(zip.entries)[k].path # "manifest.json"
              /\ EntriesNamed(zip.entries, ManifestFiles(zip.entries)[k].path) # {}
        /\ {zip.entries[i].name : i \in 1..Len(zip.entries)}
              = {"timeline.json", "methodology.md", "verify.py", "manifest.json"}

\* An archive of a source that has a capture.
C22_Witness ==
    /\ zip.ok
    /\ \E i \in EntriesNamed(zip.entries, "timeline.json") :
          Len(zip.entries[i].data.data.items) > 0

\* The entry names of an archive, in archive order.
EntryNames(entries) == [i \in 1..Len(entries) |-> entries[i].name]

\* C23: the entries of every archive build_proof_pack returns are in the
\* order methodology.md, timeline.json, verify.py, manifest.json
\* (lexicographic by path, manifest last), and all carry one timestamp that
\* is the same in every build.
C23_FixedOrderAndTimestamp ==
    zip.ok =>
        /\ EntryNames(zip.entries)
              = <<"methodology.md", "timeline.json", "verify.py", "manifest.json">>
        /\ \A i \in 1..Len(zip.entries) : zip.entries[i].date_time = ZipDateTime(0)

(***************************************************************************)
(* Serialized capture creation: a create_capture request starts when the    *)
(* requests before it have answered.  One build_proof_pack call comes at    *)
(* any moment, between any two steps, for any source id and any limit.      *)
(***************************************************************************)
Answered(r) == \A q \in 1..(r - 1) : creq[q].pc = "done"

NextSerial ==
    \/ \E r \in SourceRequests, url \in Urls : SourceCheckExisting(r, url)
    \/ \E r \in SourceRequests : SourceInsertCommit(r)
    \/ \E r \in CaptureRequests, source_id \in SourceIdInputs :
          Answered(r) /\ LoadSource(r, source_id)
    \/ \E r \in CaptureRequests : ReadPrev(r)
    \/ \E r \in CaptureRequests : ReadClock(r)
    \/ \E r \in CaptureRequests, resp \in Responses : Fetch(r, resp)
    \/ \E r \in CaptureRequests : Insert(r)
    \/ \E r \in CaptureRequests : Commit(r)
    \/ \E source_id \in SourceIdInputs, limit \in Limits :
          builds = 0 /\ BuildProofPack(source_id, limit)

SpecSerial == Init /\ [][NextSerial]_vars

\* The documents an archive carries.
TimelineOf(entries) ==
    entries[CHOOSE i \in EntriesNamed(entries, "timeline.json") : TRUE].data.data
ManifestOf(entries) ==
    entries[CHOOSE i \in EntriesNamed(entries, "manifest.json") : TRUE].data.data

\* The capture rows that the items of a timeline stand for.
Picked(items, rows) == {c \in rows : \E i \in 1..Len(items) : items[i].id = c.id}

\* items are the earliest captures of rows, up to limit of them, earliest
\* first, each with the canonical URL.
EarliestUpTo(items, rows, limit, canonical_url) ==
    /\ Len(items) = (IF limit < Cardinality(rows) THEN limit ELSE Cardinality(rows))
    /\ \A i \in 1..Len(items) :
          /\ items[i].canonical_url = canonical_url
          /\ \E c \in rows :
                /\ items[i].id = c.id
                /\ items[i].captured_at = isoformat(c.captured_at)
                /\ \A j \in (i + 1)..Len(items) : \E d \in rows :
                      /\ d.id = items[j].id
                      /\ d.id # c.id
                      /\ c.captured_at <= d.captured_at
    /\ \A c \in Picked(items, rows), d \in rows \ Picked(items, rows) :
          c.captured_at <= d.captured_at

\* C24: when build_proof_pack returns an archive for a source with n captures
\* and a limit L >= 0, the items of timeline.json are the min(L, n) earliest
\* captures of the source, earliest first, each with the source's canonical
\* URL, and the manifest's capture_count is the number of items.
C24_EarliestUpToLimit ==
    [][(zip' # zip /\ zip'.ok) =>
          /\ EarliestUpTo(TimelineOf(zip'.entries).items, CapturesOf(zip'.source_id),
                          zip'.limit, SelectSource(zip'.source_id).canonical_url)
          /\ ManifestOf(zip'.entries).capture_count
                = Len(TimelineOf(zip'.entries).items)]_vars

\* A build with limit 1 of a source that has two captures.
C24_Witness ==
    /\ zip.ok
    /\ zip.limit = 1
    /\ zip.store_size = StoreSize
    /\ Cardinality(CapturesOf(zip.source_id)) = 2
    /\ Len(TimelineOf(zip.entries).items) = 1

\* C25: a build_proof_pack call that comes between any two steps of a
\* create_capture request puts into the pack captures that are committed, and
\* none that a request has flushed and not committed; with capture creation
\* serialized, the pack passes the verifier.
C25_BuildReadsCommitted ==
    [][(zip' # zip /\ zip'.ok) =>
          /\ \A i \in 1..Len(TimelineOf(zip'.entries).items) :
                /\ \E c \in captures :
                      /\ c.id = TimelineOf(zip'.entries).items[i].id
                      /\ c.source_id = zip'.source_id
                /\ \A r \in CaptureRequests :
                      creq[r].pc = "commit"
                         => creq[r].cap.id # TimelineOf(zip'.entries).items[i].id
          /\ Verify(Unzip(zip'.entries)).code = 0
          /\ Failures(Verify(Unzip(zip'.entries))) = {}]_vars

\* A pack with an item, built after a later request for the source had read
\* its clock and before that request committed.
C25_Witness ==
    /\ zip.ok
    /\ Len(TimelineOf(zip.entries).items) > 0
    /\ \E r \in CaptureRequests :
          /\ creq[r].pc = "commit"
          /\ creq[r].cap.source_id = zip.source_id
          /\ creq[r].captured_at < zip.at

(***************************************************************************)
(* Two sources: requests for one source come one after the other, requests  *)
(* for different sources interleave step by step.  The store starts with    *)
(* the two sources and the first capture of each.                           *)
(***************************************************************************)
SeedUrls == <<"http://a.io/x", "http://a.io/y">>

SeedIds == {Uuid("s", n) : n \in 1..Len(SeedUrls)}

\* The row create_source commits for the n-th URL.
SeedSource(n) ==
    [id |-> Uuid("s", n), org_id |-> V1_ORG_ID, url |-> SeedUrls[n],
     canonical_url |-> canonicalize_url(SeedUrls[n]), is_active |-> TRUE]

\* The row the first create_capture of the n-th source commits, at clock
\* reading n, when the fetch succeeds.
SeedCapture(n) ==
    CaptureRow(Uuid("k", n), Uuid("s", n), canonicalize_url(SeedUrls[n]), None, None, n,
               fetch_url([raises |-> FALSE, status |-> 200, content |-> "<p>a  b</p>"]),
               None)

InitApart ==
    /\ sources = {SeedSource(n) : n \in 1..Len(SeedUrls)}
    /\ captures = {SeedCapture(n) : n \in 1..Len(SeedUrls)}
    /\ artifacts = UNION {ArtifactsOf(SeedCapture(n)) : n \in 1..Len(SeedUrls)}
    /\ event_log =
          {[id |-> Uuid("e-s", n), org_id |-> V1_ORG_ID,
            event_type |-> "source.created", entity_type |-> "source",
            entity_id |-> Uuid("s", n), fetch_status |-> 0] : n \in 1..Len(SeedUrls)}
          \cup {EventOf(SeedCapture(n)) : n \in 1..Len(SeedUrls)}
    /\ now = Len(SeedUrls) + 1
    /\ creq = [r \in CaptureRequests |-> NewCaptureRequest]
    /\ sreq = [r \in SourceRequests |-> NewSourceRequest]
    /\ zip = NoZip
    /\ dir = NoDir
    /\ builds = 0
    /\ edits = 0
    /\ timeline = NoTimeline

\* No other request for the source is under way.
Alone(r, source_id) ==
    \A q \in CaptureRequests \ {r} :
        creq[q].source_id = source_id => creq[q].pc = "done"

NextApart ==
    \/ \E r \in CaptureRequests, source_id \in SeedIds :
          Alone(r, source_id) /\ LoadSource(r, source_id)
    \/ \E r \in CaptureRequests : ReadPrev(r)
    \/ \E r \in CaptureRequests : ReadClock(r)
    \/ \E r \in CaptureRequests, resp \in Responses : Fetch(r, resp)
    \/ \E r \in CaptureRequests : Insert(r)
    \/ \E r \in CaptureRequests : Commit(r)

SpecApart == InitApart /\ [][NextApart]_vars

\* The artifacts of the captures of a source.
ArtifactsOfSource(source_id) ==
    {a \in artifacts : \E c \in CapturesOf(source_id) : a.capture_id = c.id}

\* rows, in captured_at order, are the chain of a source whose requests ran
\* with no request of another source about: each row names the row before
\* it and carries the digest of its own fields and that row's digest.
ChainOfItsOwn(rows, canonical_url) ==
    \A i \in 1..Len(rows) :
        /\ rows[i].prev_capture_id = (IF i = 1 THEN None ELSE rows[i - 1].id)
        /\ rows[i].chain_sha256 =
              ChainDigestOf(rows[i].prev_capture_id,
                            IF i = 1 THEN None ELSE rows[i - 1].chain_sha256,
                            rows[i].raw_bytes_sha256, rows[i].normalized_text_sha256,
                            isoformat(rows[i].captured_at), canonical_url)

\* C26: a step of create_capture for one source leaves the captures and
\* artifacts of every other source as they were; the capture a capture names
\* as its predecessor is of the same source; and with requests for different
\* sources interleaved, the captures of each source are the chain its
\* requests give when they run alone.
C26_SourcesIndependent ==
    [][/\ \A r \in CaptureRequests :
             creq'[r] # creq[r] =>
                \A s \in SeedIds \ {creq'[r].source_id} :
                    /\ CapturesOf(s)' = CapturesOf(s)
                    /\ ArtifactsOfSource(s)' = ArtifactsOfSource(s)
       /\ \A c \in captures' :
             c.prev_capture_id # None =>
                \E p \in captures' :
                    p.id = c.prev_capture_id /\ p.source_id = c.source_id
       /\ \A s \in SeedIds :
             ChainOfItsOwn(Ascending(CapturesOf(s)), SelectSource(s).canonical_url)']_vars

\* Two requests for different sources overlapped: the one that read its
\* clock first has not committed when the other has answered, and the
\* latest capture of the store is of the other source.
C26_Witness ==
    \E r \in CaptureRequests, q \in CaptureRequests :
        /\ creq[r].pc = "commit" /\ creq[q].pc = "done" /\ creq[q].status = 200
        /\ creq[r].source_id # creq[q].source_id
        /\ creq[r].captured_at < creq[q].captured_at
        /\ creq[r].cap.prev_capture_id # None

(***************************************************************************)
(* Packs with a field of an item changed and the chain left as it was       *)
(***************************************************************************)
TamperedFields == ChainedFields \cup {"chain_sha256"}

TamperValues(field) ==
    IF field = "chain_sha256" THEN {sha256_hex("z")} ELSE OtherValues(field)

\* A field of item k of timeline.json is changed, and the manifest gets the
\* digest of the file as it is then.
Tamper(k, field, v) ==
    /\ edits < MaxEdits
    /\ Readable(dir, "timeline.json") /\ Readable(dir, "manifest.json")
    /\ k \in 1..Len(dir["timeline.json"].data.items)
    /\ dir["timeline.json"].data.items[k][field] # v
    /\ dir["manifest.json"].data.files[1].path = "timeline.json"
    /\ dir' = [dir EXCEPT
                 !["timeline.json"].data.items[k][field] = v,
                 !["manifest.json"].data.files[1].sha256 =
                     FileSha256([dir["timeline.json"] EXCEPT
                                   !.data.items[k][field] = v])]
    /\ edits' = edits + 1
    /\ UNCHANGED <<store, now, creq, sreq, zip, builds, timeline>>

NextTamper ==
    \E k \in 1..MaxChain, field \in TamperedFields :
        \E v \in TamperValues(field) : Tamper(k, field, v)

SpecTamper == InitVerify /\ [][NextTamper]_vars

(***************************************************************************)
(* Claims about the verifier's chain digest                                 *)
(***************************************************************************)
\* compute_chain_sha256 on the fields of a timeline item.
SequencerChain(item, prev_chain) ==
    compute_chain_sha256(item.prev_capture_id, prev_chain, item.raw_bytes_sha256,
                         item.normalized_text_sha256, item.captured_at,
                         item.canonical_url)

\* Every item names the item before it.
WellLinked(items) ==
    \A i \in 1..Len(items) :
        items[i].prev_capture_id = (IF i = 1 THEN None ELSE items[i - 1].id)

\* Every item carries the sequencer's digest of its fields and of the digest
\* stored in the item before it.
FedByItemBefore(items) ==
    \A i \in 1..Len(items) :
        items[i].chain_sha256
           = SequencerChain(items[i], IF i = 1 THEN None ELSE items[i - 1].chain_sha256)

\* C27: on the fields of every item, with every predecessor digest (none
\* included), the verifier's digest is compute_chain_sha256's; and the
\* verifier passes the chain of well-linked items exactly when each item's
\* stored digest is compute_chain_sha256 of its fields and of the digest
\* stored in the item before it in timeline.json, whatever the manifest
\* holds.
C27_VerifierDigestIsSequencers ==
    /\ \A i \in 1..Len(dir["timeline.json"].data.items) :
       \A prev_chain \in {None} \cup
             {dir["timeline.json"].data.items[j].chain_sha256 :
                 j \in 1..Len(dir["timeline.json"].data.items)} :
          VerifierChain(dir["timeline.json"].data.items[i], prev_chain)
             = SequencerChain(dir["timeline.json"].data.items[i], prev_chain)
    /\ (WellLinked(dir["timeline.json"].data.items)
          /\ dir["timeline.json"].data.items # <<>>) =>
          (PassChain \in Lines(Verify(dir))
              <=> FedByItemBefore(dir["timeline.json"].data.items))

\* A timeline of two well-linked items, the first with a digest field
\* changed: the second was digested with the digest the first still stores,
\* and the verifier fails the chain.
C27_Witness ==
    /\ Len(dir["timeline.json"].data.items) = 2
    /\ WellLinked(dir["timeline.json"].data.items)
    /\ ~FedByItemBefore(dir["timeline.json"].data.items)
    /\ dir["timeline.json"].data.items[2].chain_sha256
          = SequencerChain(dir["timeline.json"].data.items[2],
                           dir["timeline.json"].data.items[1].chain_sha256)
    /\ Line("FAIL", "chain_sha256 mismatch", "", 0) \in Lines(Verify(dir))

(***************************************************************************)
(* Claims about what a request leaves behind                                *)
(***************************************************************************)
\* The captures in the store that request r made.
CapturesBy(r) ==
    {c \in captures : /\ c.id = creq[r].cap.id
                      /\ c.source_id = creq[r].source_id
                      /\ c.fetch_status = creq[r].fetch_status
                      /\ c.fetch_error = creq[r].fetch_error}

\* C28: a create_capture request that found its source and has answered, has
\* answered with the capture summary (status 200) and has added exactly one
\* capture, whether the fetch gave a document, an HTTP error status or
\* raised; the store has one capture for each such request and no other.
C28_OneCapturePerResolvedRequest ==
    /\ \A r \in CaptureRequests :
          (creq[r].pc = "done" /\ creq[r].status # 404) =>
              /\ creq[r].status = 200
              /\ Cardinality(CapturesBy(r)) = 1
              /\ creq[r].raised =>
                    \A c \in CapturesBy(r) : c.fetch_status = 0 /\ c.fetch_error # None
    /\ Cardinality(captures)
          = Cardinality({r \in CaptureRequests :
                            creq[r].pc = "done" /\ creq[r].status # 404})

\* One request whose fetch raised and one whose fetch got status 500 have
\* both answered.
C28_Witness ==
    \E r \in CaptureRequests, q \in CaptureRequests :
        /\ creq[r].pc = "done" /\ creq[r].status = 200 /\ creq[r].raised
        /\ creq[q].pc = "done" /\ creq[q].status = 200 /\ creq[q].fetch_status = 500
        /\ CapturesBy(r) # {} /\ CapturesBy(q) # {}

\* C29: build_proof_pack for a source id that the tenant has no source of
\* fails with the not-found error (the ValueError of line 55) and returns no
\* archive, and for a source the tenant has it returns one; whichever it
\* does, no source, capture, artifact or audit event is created, changed or
\* deleted.
C29_BuildOnlyReads ==
    [][zip' # zip =>
          /\ sources' = sources /\ captures' = captures
          /\ artifacts' = artifacts /\ event_log' = event_log
          /\ ~(\E s \in sources : s.id = zip'.source_id /\ s.org_id = V1_ORG_ID) =>
                /\ ~zip'.ok
                /\ zip'.error = "ValueError"
                /\ zip'.entries = <<>> /\ zip'.filename = None
          /\ (\E s \in sources : s.id = zip'.source_id /\ s.org_id = V1_ORG_ID) =>
                zip'.ok /\ zip'.error = None]_vars

\* A build was refused for a source id that the store, which has rows, does
\* not have.
C29_Witness ==
    /\ ~zip.ok /\ zip.error = "ValueError"
    /\ sources # {} /\ captures # {} /\ event_log # {}
    /\ \A s \in sources : s.id # zip.source_id

(***************************************************************************)
(* Builds asked for with a long text of the source id: the id followed by   *)
(* hyphens, which uuid.UUID accepts, so many that the manifest is one       *)
(* character under the ceiling, or at it.                                   *)
(***************************************************************************)
PaddedIds ==
    {id \o SubSeq(Hyphens(14), 1, n) : id \in SourceIdInputs, n \in {9535, 9536}}

NextGuard ==
    \/ NextSerial
    \/ \E source_id \in PaddedIds : builds = 0 /\ BuildProofPack(source_id, DefaultLimit)

SpecGuard == Init /\ [][NextGuard]_vars

\* C30: the manifest of every archive build_proof_pack returns passes the
\* guard: its key-sorted serialization has fewer than 10000 characters and
\* no value of it or of an entry of its files list is a byte payload.  A
\* build whose guard trips ends with the guard's error and returns no
\* archive, and a build for a source id text of 10000 characters or more
\* trips the guard.
C30_ManifestPassedGuard ==
    [][zip' # zip =>
          /\ zip'.ok =>
                /\ ManifestJsonLen(ManifestOf(zip'.entries)) < ManifestCeiling
                /\ NoBytes(ManifestOf(zip'.entries))
          /\ zip'.error = "AssertionError" =>
                ~zip'.ok /\ zip'.entries = <<>> /\ zip'.filename = None
          /\ (/\ \E s \in sources : s.id = ParseUuid(zip'.source_id)
              /\ Len(zip'.source_id) >= ManifestCeiling) =>
                zip'.error = "AssertionError"]_vars

\* The guard tripped: a build for a source the tenant has gave no archive.
C30_Witness ==
    /\ zip.error = "AssertionError"
    /\ ~zip.ok
    /\ \E s \in sources : s.id = ParseUuid(zip.source_id)

(***************************************************************************)
(* Requests that are turned away: create_source requests that meet a        *)
(* source with their canonical URL, create_capture requests for a source id *)
(* the store may not have                                                   *)
(***************************************************************************)
InitRejects ==
    /\ sources = {}
    /\ captures = {}
    /\ artifacts = {}
    /\ event_log = {}
    /\ now = 1
    /\ creq = [r \in 1..NumAuditRequests |-> NewCaptureRequest]
    /\ sreq = [r \in 1..NumConcurrentSources |-> NewSourceRequest]
    /\ zip = NoZip
    /\ dir = NoDir
    /\ builds = 0
    /\ edits = 0
    /\ timeline = NoTimeline

NextRejects ==
    \/ \E r \in DOMAIN sreq, url \in Urls : SourceCheckExisting(r, url)
    \/ \E r \in DOMAIN sreq : SourceInsertCommit(r)
    \/ \E r \in DOMAIN creq, source_id \in SourceIdInputs : LoadSource(r, source_id)
    \/ \E r \in DOMAIN creq : ReadPrev(r)
    \/ \E r \in DOMAIN creq : ReadClock(r)
    \/ \E r \in DOMAIN creq, resp \in Responses : Fetch(r, resp)
    \/ \E r \in DOMAIN creq : Insert(r)
    \/ \E r \in DOMAIN creq : Commit(r)

SpecRejects == InitRejects /\ [][NextRejects]_vars

\* The source.created events of a source id.
SourceEventsFor(id) ==
    {e \in event_log : /\ e.entity_type = "source" /\ e.entity_id = id
                       /\ e.event_type = "source.created"}

\* C31: every capture has exactly one audit event: capture.failed when its
\* fetch_status is 0, which is when its fetch_error is set, and
\* capture.created otherwise, an HTTP error status included; every
\* create_source request answered 200 has exactly one source.created event;
\* and there is no other event, so requests turned away left none.
C31_OneEventPerCommittedRow ==
    /\ \A c \in captures :
          /\ Cardinality(EventsFor(c.id)) = 1
          /\ (c.fetch_status = 0) <=> (c.fetch_error # None)
          /\ \A e \in EventsFor(c.id) :
                e.event_type = (IF c.fetch_status = 0 THEN "capture.failed"
                                ELSE "capture.created")
    /\ \A r \in DOMAIN sreq :
          (sreq[r].pc = "done" /\ sreq[r].status = 200)
             => Cardinality(SourceEventsFor(sreq[r].id)) = 1
    /\ Cardinality(event_log)
          = Cardinality(captures)
            + Cardinality({r \in DOMAIN sreq : sreq[r].pc = "done" /\ sreq[r].status = 200})

\* A capture of a response with status 500 has its capture.created event,
\* and a create_source request was answered 409.
C31_Witness ==
    /\ \E c \in captures :
          /\ c.fetch_status = 500
          /\ \E e \in EventsFor(c.id) : e.event_type = "capture.created"
    /\ \E r \in DOMAIN sreq : sreq[r].pc = "done" /\ sreq[r].status = 409

\* C32: the step that answers a create_capture request 404 and the step that
\* answers a create_source request 409 leave every source, capture, artifact
\* and audit event as it was and add none; such a request has no other step.
C32_RejectionLeavesStore ==
    [][(\/ \E r \in DOMAIN creq :
              creq'[r] # creq[r] /\ creq'[r].pc = "done" /\ creq'[r].status = 404
        \/ \E r \in DOMAIN sreq :
              sreq'[r] # sreq[r] /\ sreq'[r].pc = "done" /\ sreq'[r].status = 409)
          => /\ sources' = sources /\ captures' = captures
             /\ artifacts' = artifacts /\ event_log' = event_log
             /\ \A r \in DOMAIN creq : creq'[r] # creq[r] => creq[r].pc = "new"
             /\ \A r \in DOMAIN sreq : sreq'[r] # sreq[r] => sreq[r].pc = "new"]_vars

\* Both kinds of request were turned away by a store that has rows.
C32_Witness ==
    /\ \E r \in DOMAIN creq : creq[r].pc = "done" /\ creq[r].status = 404
    /\ \E r \in DOMAIN sreq : sreq[r].pc = "done" /\ sreq[r].status = 409
    /\ sources # {} /\ event_log # {}

(***************************************************************************)
(* get_timeline beside serialized capture creation: one call, at any        *)
(* moment, for any source id and any limit                                  *)
(***************************************************************************)
NextTimeline ==
    \/ \E r \in SourceRequests, url \in Urls : SourceCheckExisting(r, url)
    \/ \E r \in SourceRequests : SourceInsertCommit(r)
    \/ \E r \in CaptureRequests, source_id \in SourceIdInputs :
          Answered(r) /\ LoadSource(r, source_id)
    \/ \E r \in CaptureRequests : ReadPrev(r)
    \/ \E r \in CaptureRequests : ReadClock(r)
    \/ \E r \in CaptureRequests, resp \in Responses : Fetch(r, resp)
    \/ \E r \in CaptureRequests : Insert(r)
    \/ \E r \in CaptureRequests : Commit(r)
    \/ \E source_id \in SourceIdInputs, limit \in Limits :
          timeline = NoTimeline /\ GetTimeline(source_id, limit)

SpecTimeline == Init /\ [][NextTimeline]_vars

\* items are summaries of the latest captures of rows, up to limit of them,
\* latest first, each with the digests of its capture.
LatestUpTo(items, rows, limit) ==
    /\ Len(items) = (IF limit < Cardinality(rows) THEN limit ELSE Cardinality(rows))
    /\ \A i \in 1..Len(items) : \E c \in rows :
          /\ items[i].id = c.id
          /\ items[i].captured_at = isoformat(c.captured_at)
          /\ items[i].fetch_status = c.fetch_status
          /\ items[i].raw_bytes_sha256 = c.raw_bytes_sha256
          /\ items[i].normalized_text_sha256 = c.normalized_text_sha256
          /\ items[i].chain_sha256 = c.chain_sha256
          /\ \A j \in (i + 1)..Len(items) : \E d \in rows :
                d.id = items[j].id /\ d.id # c.id /\ d.captured_at <= c.captured_at
    /\ \A c \in Picked(items, rows), d \in rows \ Picked(items, rows) :
          d.captured_at <= c.captured_at

\* C33: get_timeline for a source the tenant has, with n captures and limit
\* L, answers with the summaries of the min(L, n) latest captures, latest
\* first, each with the stored digests; for another source id it answers
\* 404; and it leaves the store as it was.
C33_LatestUpToLimit ==
    [][timeline' # timeline =>
          /\ sources' = sources /\ captures' = captures
          /\ artifacts' = artifacts /\ event_log' = event_log
          /\ (\E s \in sources : s.id = timeline'.source_id /\ s.org_id = V1_ORG_ID) =>
                /\ timeline'.status = 200
                /\ LatestUpTo(timeline'.items, CapturesOf(timeline'.source_id),
                              timeline'.limit)
          /\ ~(\E s \in sources : s.id = timeline'.source_id /\ s.org_id = V1_ORG_ID) =>
                timeline'.status = 404 /\ timeline'.items = <<>>]_vars

\* An answer with limit 1 for a source that has two captures: the later one.
C33_Witness ==
    /\ timeline.status = 200 /\ timeline.limit = 1
    /\ Cardinality(CapturesOf(timeline.source_id)) = 2
    /\ Len(timeline.items) = 1
    /\ \A c \in CapturesOf(timeline.source_id) :
          isoformat(c.captured_at) = timeline.items[1].captured_at
             => c.prev_capture_id # None

(***************************************************************************)
(* Termination of create_capture                                            *)
(***************************************************************************)
\* The steps of create_capture request r.  The fetch step is taken when the
\* fetch returns, raises, or runs into the timeout of fetch_url, which
\* raises too.
CaptureStep(r) ==
    \/ \E source_id \in SourceIdInputs : LoadSource(r, source_id)
    \/ ReadPrev(r)
    \/ ReadClock(r)
    \/ \E resp \in Responses : Fetch(r, resp)
    \/ Insert(r)
    \/ Commit(r)

\* The handler of a request is a coroutine that the event loop runs on
\* whenever what it awaits is there: a request that can take a step takes it.
SpecLive ==
    InitRejects /\ [][NextRejects]_vars
       /\ \A r \in 1..NumAuditRequests : WF_vars(CaptureStep(r))

\* Request r has answered: 404, or 200 with its one capture committed.
Terminated(r) ==
    /\ creq[r].pc = "done"
    /\ \/ creq[r].status = 404
       \/ creq[r].status = 200 /\ Cardinality(CapturesBy(r)) = 1

\* C34: every create_capture request that has begun ends, answered 404 or
\* with its one capture committed; and a request is past its fetch after
\* the one step in which it fetches, and never comes back to it.
C34_TerminatesAfterOneFetch ==
    /\ \A r \in 1..NumAuditRequests : (creq[r].pc # "new") ~> Terminated(r)
    /\ [][\A r \in 1..NumAuditRequests :
             /\ (creq[r].pc = "fetch" /\ creq'[r] # creq[r]) => creq'[r].pc = "insert"
             /\ creq'[r].pc = "fetch" => creq[r].pc \in {"read_clock", "fetch"}]_vars

\* A request whose fetch raised has ended with its capture committed.
C34_Witness ==
    \E r \in 1..NumAuditRequests :
        Terminated(r) /\ creq[r].raised /\ creq[r].status = 200

(***************************************************************************)
(* Packs of a forked store: two requests read one latest capture, and both  *)
(* committed.  The packs are edited as above.                               *)
(***************************************************************************)
\* The rows of SerialChain(n) and the row of a request that read what the
\* n-th request read.
ForkedChain(n) ==
    Append(SerialChain(n),
           CaptureRow(Uuid("c", n + 1), "s1", SampleUrl,
                      SerialChain(n)[n].prev_capture_id,
                      IF n = 1 THEN None ELSE SerialChain(n)[n - 1].chain_sha256,
                      n + 1, fetch_url([raises |-> FALSE, status |-> 200,
                                        content |-> "<p>a  b</p>"]), None))

ForkedDirs ==
    {Unzip(BuildArchive("s1", SampleUrl, ForkedChain(n), n + 2).entries) : n \in 1..MaxChain}

InitForked ==
    /\ sources = {}
    /\ captures = {}
    /\ artifacts = {}
    /\ event_log = {}
    /\ now = 1
    /\ creq = [r \in CaptureRequests |-> NewCaptureRequest]
    /\ sreq = [r \in SourceRequests |-> NewSourceRequest]
    /\ zip = NoZip
    /\ dir \in SampleDirs \cup ForkedDirs
    /\ builds = 0
    /\ edits = 0
    /\ timeline = NoTimeline

SpecForked == InitForked /\ [][NextTamper]_vars

\* Two items with different ids name one predecessor.
HasFork(items) ==
    \E i \in 1..Len(items), j \in 1..Len(items) :
        /\ i < j
        /\ items[i].id # items[j].id
        /\ items[i].prev_capture_id = items[j].prev_capture_id

\* C35: when the verifier prints that the chain was verified and exits 0,
\* the first item of the timeline it read has no prev_capture_id, every
\* later item names the id of the item before it, and every item's
\* chain_sha256 is the formula of its own fields and the chain_sha256 of the
\* item before it (the empty string for the first); so the pack of a store
\* with a fork among the captures packed is not passed.
C35_VerifierSound ==
    /\ (Verify(dir).code = 0 /\ PassChain \in Lines(Verify(dir))) =>
          /\ Readable(dir, "timeline.json")
          /\ \A i \in 1..Len(dir["timeline.json"].data.items) :
                ItemHolds(dir["timeline.json"].data.items, i)
    /\ (Readable(dir, "timeline.json") /\ HasFork(dir["timeline.json"].data.items)) =>
          /\ PassChain \notin Lines(Verify(dir))
          /\ Verify(dir).code # 0

\* The untouched pack of a forked store, which the verifier fails.
C35_Witness ==
    /\ edits = 0
    /\ Readable(dir, "timeline.json")
    /\ HasFork(dir["timeline.json"].data.items)
    /\ Failures(Verify(dir)) # {}

\* C36: whatever the interleaving of create_capture requests, a capture
\* that is committed with a prev_capture_id names a capture that was
\* committed before it, of the same source and tenant, with a captured_at
\* before its own; so following prev_capture_id goes back in time and never
\* comes round.
C36_PredecessorCommittedEarlier ==
    [][/\ \A c \in captures' \ captures :
             c.prev_capture_id # None =>
                \E p \in captures :
                    /\ p.id = c.prev_capture_id
                    /\ p.source_id = c.source_id /\ p.org_id = c.org_id
                    /\ p.captured_at < c.captured_at
       /\ \A c \in captures' :
             c.prev_capture_id # None =>
                \E p \in captures' :
                    /\ p.id = c.prev_capture_id /\ p.id # c.id
                    /\ p.captured_at < c.captured_at]_vars

\* A request has committed a capture that names a predecessor.
C36_Witness ==
    /\ \E c \in captures : c.prev_capture_id # None
    /\ \E r \in CaptureRequests : creq[r].pc = "done" /\ creq[r].status = 200
                                     /\ creq[r].cap.prev_capture_id # None

(***************************************************************************)
(* Packs with a field of the manifest other than the files list rewritten,  *)
(* beside the edits of timeline items                                       *)
(***************************************************************************)
ManifestFields == {"source_id", "generated_at", "hash_algo", "capture_count"}

ManifestValues(field) ==
    CASE field = "source_id" -> {"sX"}
      [] field = "generated_at" -> {isoformat(9)}
      [] field = "hash_algo" -> {"md5"}
      [] field = "capture_count" -> {0, 7}

\* A field of manifest.json is rewritten.
EditManifest(field, v) ==
    /\ edits < MaxEdits
    /\ Readable(dir, "manifest.json")
    /\ dir["manifest.json"].data[field] # v
    /\ dir' = [dir EXCEPT !["manifest.json"].data[field] = v]
    /\ edits' = edits + 1
    /\ UNCHANGED <<store, now, creq, sreq, zip, builds, timeline>>

NextManifest ==
    \/ NextTamper
    \/ \E field \in ManifestFields : \E v \in ManifestValues(field) : EditManifest(field, v)

SpecManifest == InitVerify /\ [][NextManifest]_vars

\* C37: a step that rewrites source_id, generated_at, hash_algo or
\* capture_count of the manifest and nothing else leaves all that the
\* verifier prints, and its exit code, as they were: the packs before and
\* after, which differ in those fields only, get one verdict.
C37_VerdictIgnoresManifestFields ==
    [][(/\ Readable(dir, "manifest.json") /\ Readable(dir', "manifest.json")
        /\ \A name \in FileNames \ {"manifest.json"} : dir'[name] = dir[name]
        /\ dir'["manifest.json"].data.files = dir["manifest.json"].data.files)
          => Verify(dir') = Verify(dir)]_vars

\* A pack whose capture_count is not the number of its items passes.
C37_Witness ==
    /\ Readable(dir, "manifest.json") /\ Readable(dir, "timeline.json")
    /\ dir["manifest.json"].data.capture_count # Len(dir["timeline.json"].data.items)
    /\ Len(dir["timeline.json"].data.items) > 0
    /\ PassChain \in Lines(Verify(dir))

(***************************************************************************)
(* build_proof_pack in its two parts: the reads in the database session     *)
(* (lines 49-80), then the clock and the archive (lines 82-263).  Requests  *)
(* take their steps between the two.                                        *)
(***************************************************************************)
\* Lines 49-80: the source and the rows are read.  A build for a source the
\* tenant has not ends here, with the ValueError.  read_at is the clock at
\* that moment, which the handler does not look at.
BuildRead(source_id, limit) ==
    /\ builds = 0 /\ zip = NoZip
    /\ IF SelectSource(ParseUuid(source_id)) = NoRow
       THEN /\ zip' = BuildResult(source_id, limit, now)
            /\ builds' = builds + 1
       ELSE /\ zip' = [ok |-> FALSE, error |-> "pending", filename |-> None,
                       entries |-> <<>>, source_id |-> source_id, limit |-> limit,
                       at |-> 0, store_size |-> StoreSize, read_at |-> now,
                       canonical_url |-> SelectSource(ParseUuid(source_id)).canonical_url,
                       rows |-> Limit(Ascending(CapturesOf(ParseUuid(source_id))), limit)]
            /\ UNCHANGED builds
    /\ UNCHANGED <<store, now, creq, sreq, dir, edits, timeline>>

\* A build that read the clock before it read the rows: it writes the rows
\* that are there now under the earlier reading.
BuildWrite_clock_first ==
    /\ zip.error = "pending"
    /\ zip' = [ok |-> TRUE, error |-> None,
               filename |-> BuildArchive(zip.source_id, zip.canonical_url,
                               Limit(Ascending(CapturesOf(ParseUuid(zip.source_id))),
                                     zip.limit), zip.read_at).filename,
               entries |-> BuildArchive(zip.source_id, zip.canonical_url,
                               Limit(Ascending(CapturesOf(ParseUuid(zip.source_id))),
                                     zip.limit), zip.read_at).entries,
               source_id |-> zip.source_id, limit |-> zip.limit, at |-> zip.read_at,
               store_size |-> StoreSize]
    /\ now' = now + 1
    /\ builds' = builds + 1
    /\ UNCHANGED <<store, creq, sreq, dir, edits, timeline>>

\* Lines 82-263: one reading of the clock, then the archive of the rows
\* read before, or the AssertionError of the guard.
BuildWrite ==
    /\ zip.error = "pending"
    /\ zip' = IF ~manifest_data_small(
                    BuildArchive(zip.source_id, zip.canonical_url, zip.rows,
                                 now).entries[4].data.data)
              THEN [NoZip EXCEPT !.error = "AssertionError", !.source_id = zip.source_id,
                                 !.limit = zip.limit, !.at = now,
                                 !.store_size = zip.store_size]
              ELSE [ok |-> TRUE, error |-> None,
                    filename |-> BuildArchive(zip.source_id, zip.canonical_url, zip.rows,
                                              now).filename,
                    entries |-> BuildArchive(zip.source_id, zip.canonical_url, zip.rows,
                                             now).entries,
                    source_id |-> zip.source_id, limit |-> zip.limit, at |-> now,
                    store_size |-> zip.store_size]
    /\ now' = now + 1
    /\ builds' = builds + 1
    /\ UNCHANGED <<store, creq, sreq, dir, edits, timeline>>

NextSplit ==
    \/ \E r \in SourceRequests, url \in Urls : SourceCheckExisting(r, url)
    \/ \E r \in SourceRequests : SourceInsertCommit(r)
    \/ \E r \in CaptureRequests, source_id \in SourceIdInputs :
          Answered(r) /\ LoadSource(r, source_id)
    \/ \E r \in CaptureRequests : ReadPrev(r)
    \/ \E r \in CaptureRequests : ReadClock(r)
    \/ \E r \in CaptureRequests, resp \in Responses : Fetch(r, resp)
    \/ \E r \in CaptureRequests : Insert(r)
    \/ \E r \in CaptureRequests : Commit(r)
    \/ \E source_id \in SourceIdInputs, limit \in {1, DefaultLimit} :
          BuildRead(source_id, limit)
    \/ BuildWrite

SpecSplit == Init /\ [][NextSplit]_vars

\* The characters of name between the last underscore and ".zip", when name
\* is proofpack_<source_id>_<16 characters>.zip.
FilenameStamp(name, source_id) ==
    IF /\ Len(name) = Len("proofpack_") + Len(source_id) + 1 + 16 + Len(".zip")
       /\ Prefix(name, Len("proofpack_") + Len(source_id) + 1)
             = "proofpack_" \o source_id \o "_"
       /\ From(name, Len(name) - 3) = ".zip"
    THEN SubSeq(name, Len(name) - 19, Len(name) - 4)
    ELSE ""

\* C38: the filename of every archive build_proof_pack returns is
\* proofpack_<source_id>_<YYYYMMDDTHHMMSSZ>.zip, with the stamp of the clock
\* reading that generated_at of the manifest is the ISO form of; that
\* reading is the clock of the step that writes the archive, not before the
\* moment the rows were read, and later than the captured_at of every item.
C38_FilenameOfOneLateReading ==
    [][(zip' # zip /\ zip'.ok) =>
          /\ FilenameStamp(zip'.filename, zip'.source_id) = strftime(now)
          /\ ManifestOf(zip'.entries).generated_at = isoformat(now)
          /\ zip'.at = now
          /\ zip.error = "pending" /\ zip.read_at <= now
          /\ \A i \in 1..Len(TimelineOf(zip'.entries).items) :
                \E c \in captures :
                    /\ c.id = TimelineOf(zip'.entries).items[i].id
                    /\ c.captured_at < now]_vars

\* An archive written after a capture was committed that the build had not
\* read: the capture is older than the archive and is not in it.
C38_Witness ==
    /\ zip.ok
    /\ \E c \in CapturesOf(zip.source_id) :
          /\ c.captured_at < zip.at
          /\ \A i \in 1..Len(TimelineOf(zip.entries).items) :
                TimelineOf(zip.entries).items[i].id # c.id
    /\ Len(TimelineOf(zip.entries).items) < zip.limit

====
